------------------------------ MODULE DictMap ------------------------------
(* What dict.c promises: under every key there is one value, or none. *)
CONSTANTS Keys, Values, Nil

VARIABLE content

Init == content = [k \in Keys |-> Nil]

\* onion_dict_add of a key that is not there, or with OD_REPLACE.
Put(k, v) == content' = [content EXCEPT ![k] = v]

\* onion_dict_remove
Delete(k) == content' = [content EXCEPT ![k] = Nil]

Next ==
  \E k \in Keys : Delete(k) \/ \E v \in Values : Put(k, v)

Spec == Init /\ [][Next]_content
=============================================================================
