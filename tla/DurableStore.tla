----------------------------- MODULE DurableStore -----------------------------
(***************************************************************************)
(* What the store of content and its backups promise together, whatever    *)
(* runs beside what: everything the database names has its file, a copy is *)
(* called good only when it holds every file its dump names, and the        *)
(* database goes back only to a good copy, whose files come back first.    *)
(***************************************************************************)
CONSTANTS Contents,  \* content addresses
          Runs       \* names of copies

VARIABLES refs,   \* the contents the database names
          files,  \* the contents the blob store holds
          kept    \* kept[r]: what the good copy r holds, {} when there is none

vars == <<refs, files, kept>>

\* What the dump of a copy names, and the files beside it.
Copy == [refs : SUBSET Contents, blobs : SUBSET Contents]

Init == /\ refs = {} /\ files = {}
        /\ kept = [r \in Runs |-> {}]

Store == \E c \in Contents : /\ files' = files \cup {c}
                             /\ UNCHANGED <<refs, kept>>

Commit == \E c \in files : /\ refs' = refs \cup {c}
                           /\ UNCHANGED <<files, kept>>

Release == \E c \in refs : /\ refs' = refs \ {c}
                           /\ UNCHANGED <<files, kept>>

Sweep == \E c \in files \ refs : /\ files' = files \ {c}
                                 /\ UNCHANGED <<refs, kept>>

Publish == \E r \in Runs, copy \in Copy :
             /\ kept[r] = {} /\ copy.refs \subseteq copy.blobs
             /\ kept' = [kept EXCEPT ![r] = {copy}]
             /\ UNCHANGED <<refs, files>>

Discard == \E r \in Runs : /\ kept[r] # {}
                           /\ kept' = [kept EXCEPT ![r] = {}]
                           /\ UNCHANGED <<refs, files>>

\* The files of a copy are back, whatever the database will say.
PutBack == \E r \in Runs : \E copy \in kept[r] :
             /\ files' = files \cup copy.blobs
             /\ UNCHANGED <<refs, kept>>

\* The database is the one of a copy, whose files are all in the store.
GoBack == \E r \in Runs : \E copy \in kept[r] :
            /\ copy.refs \subseteq files
            /\ refs' = copy.refs
            /\ UNCHANGED <<files, kept>>

Next == Store \/ Commit \/ Release \/ Sweep \/ Publish \/ Discard \/ PutBack \/ GoBack

Spec == Init /\ [][Next]_vars
=============================================================================
