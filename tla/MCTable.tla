------------------------------ MODULE MCTable ------------------------------
(* Table on a small instance; the constants are in table_file.cfg. *)
EXTENDS Table

Bytes == 1..2
UserKeys == {<<>>} \cup {<<a>> : a \in Bytes} \cup {<<1, b>> : b \in Bytes}
MCInternalKeys == {Append(k, tag) : k \in UserKeys, tag \in 1..2}

\* A hash that spreads the keys, and one under which all of them collide.
MCHashes ==
    {[k \in UserKeys |-> (5 * Len(k) + (IF k = <<2>> THEN 3 ELSE 0)) % 16],
     [k \in UserKeys |-> 9]}

=============================================================================
