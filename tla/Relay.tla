------------------------------- MODULE Relay -------------------------------
(***************************************************************************)
(* What an outbox promises to the consumers of its topic, whatever its     *)
(* workers do: the records are rows of the table, each at least once and   *)
(* perhaps more often, and a row is marked only after its record is there. *)
(* Of two rows that were created and inserted one after the other, the     *)
(* first record of the earlier comes first.  Outbox implements it.         *)
(***************************************************************************)
EXTENDS Integers, Sequences, SequencesExt

CONSTANT Rows   \* rows of the table, numbered by created_at

VARIABLES
    table,      \* the rows, in the order of insertion
    published,  \* the rows that are marked
    topic       \* the records

vars == <<table, published, topic>>

Init == table = <<>> /\ published = {} /\ topic = <<>>

Save(r) ==
    /\ r \in Rows /\ ~ Contains(table, r)
    /\ table' = Append(table, r)
    /\ UNCHANGED <<published, topic>>

\* The rows that were both created and inserted before r.
Earlier(r) ==
    {table[i] : i \in {j \in DOMAIN table :
        table[j] < r /\ \E k \in DOMAIN table : j < k /\ table[k] = r}}

Publish(r) ==
    /\ Contains(table, r)
    /\ Contains(topic, r) \/ Earlier(r) \subseteq ToSet(topic)
    /\ topic' = Append(topic, r)
    /\ UNCHANGED <<table, published>>

Mark(r) ==
    /\ Contains(topic, r)
    /\ published' = published \cup {r}
    /\ UNCHANGED <<table, topic>>

Next == \E r \in Rows : Save(r) \/ Publish(r) \/ Mark(r)

Spec == Init /\ [][Next]_vars

=============================================================================
