----------------------------- MODULE RecencyList -----------------------------
(***************************************************************************)
(* What a least-recently-used cache promises: it holds the Capacity keys   *)
(* used last, each with the value put last.                                *)
(***************************************************************************)
EXTENDS Naturals, SequencesExt

CONSTANTS Keys, Values, Capacity, Missing

VARIABLES
  recent,  \* the entries, the one used last first
  got      \* what the last call of get returned

\* The entries but that of k, of which there is at most one.
Others(k) ==
  LET places == {i \in DOMAIN recent : recent[i].key = k}
  IN  IF places = {} THEN recent ELSE RemoveAt(recent, CHOOSE i \in places : TRUE)
Held(k) == {e \in {recent[i] : i \in DOMAIN recent} : e.key = k}

Init == recent = <<>> /\ got = Missing

Put(k, v) ==
  LET all == <<[key |-> k, value |-> v]>> \o Others(k)
  IN  /\ recent' = SubSeq(all, 1, IF Len(all) > Capacity THEN Capacity ELSE Len(all))
      /\ UNCHANGED got

Get(k) ==
  \/ \E e \in Held(k) : recent' = <<e>> \o Others(k) /\ got' = e.value
  \/ Held(k) = {} /\ got' = Missing /\ UNCHANGED recent

Next == \E k \in Keys : Get(k) \/ \E v \in Values : Put(k, v)

Spec == Init /\ [][Next]_<<recent, got>>
=============================================================================
