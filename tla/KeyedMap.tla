------------------------------ MODULE KeyedMap ------------------------------
(***************************************************************************)
(* What a hash table is to its clients: a map from keys to data.  The one  *)
(* departure: removing a key that is not there may remove another one, as  *)
(* variant_hash_remove does not look at the key of what it removes.        *)
(***************************************************************************)
CONSTANTS Keys, Data, NoItem

VARIABLE content

Init == content = [k \in Keys |-> NoItem]

Put(k, d) == content' = [content EXCEPT ![k] = d]

Drop(k) == content[k] # NoItem /\ content' = [content EXCEPT ![k] = NoItem]

DropAbsent(k) ==
  /\ content[k] = NoItem
  /\ \E other \in Keys : content' = [content EXCEPT ![other] = NoItem]

Next ==
  \E k \in Keys : Drop(k) \/ DropAbsent(k) \/ \E d \in Data : Put(k, d)

Map == Init /\ [][Next]_content
=============================================================================
