--------------------------- MODULE ProtocolProofs ---------------------------
(***************************************************************************)
(* Facts about the finite maps of Protocol, for the proofs about the       *)
(* modules that use them.                                                  *)
(***************************************************************************)
EXTENDS Protocol, TLAPS

-----------------------------------------------------------------------------
(* A map with one binding added or replaced, as by operator[] of           *)
(* std::unordered_map: its domain, and what it maps every key to.          *)
LEMMA BindDomain ==
  ASSUME NEW f, NEW x, NEW v
  PROVE  /\ DOMAIN Bind(f, x, v) = DOMAIN f \cup {x}
         /\ Bind(f, x, v)[x] = v
         /\ \A y \in DOMAIN f \ {x} : Bind(f, x, v)[y] = f[y]
BY DEF Bind

(* It keeps the type of the values (peers, files, engine states).          *)
LEMMA BindType ==
  ASSUME NEW f, NEW x, NEW v, NEW S, f \in [DOMAIN f -> S], v \in S
  PROVE  Bind(f, x, v) \in [DOMAIN Bind(f, x, v) -> S]
BY DEF Bind

=============================================================================
