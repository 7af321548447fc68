------------------------------ MODULE WarmStart ------------------------------
(***************************************************************************)
(* What the state database promises a user of the workstation: the row of  *)
(* a symbol that a restart brings back is one the screen could have shown, *)
(* it is never older than one restored or saved before, and nothing but a  *)
(* reset takes it away.  A version is the number of the newest event a row *)
(* contains; 0 is no row.                                                  *)
(***************************************************************************)
EXTENDS Integers

CONSTANTS Symbols

VARIABLES
  shown,   \* symbol -> version of its row in the running session
  saved    \* symbol -> version of its row in the database

wsVars == <<shown, saved>>

\* Nothing shown, nothing saved.
wsInit == /\ shown = [s \in Symbols |-> 0]
          /\ saved = [s \in Symbols |-> 0]

\* Rows only get newer, and newer than anything saved.
Update == /\ shown' \in [Symbols -> Nat]
          /\ \A s \in Symbols : shown'[s] # shown[s] =>
               shown'[s] > shown[s] /\ shown'[s] > saved[s]
          /\ UNCHANGED saved

\* Some rows are saved, each no older than the one it replaces and no newer
\* than the one shown.
Save == /\ saved' \in [Symbols -> Nat]
        /\ \A s \in Symbols : saved'[s] # saved[s] =>
             saved'[s] > saved[s] /\ saved'[s] <= shown[s]
        /\ UNCHANGED shown

\* A restart shows what was saved of the symbols it tracks and nothing else.
Restart == /\ shown' \in [Symbols -> Nat]
           /\ \A s \in Symbols : shown'[s] \in {0, saved[s]}
           /\ UNCHANGED saved

\* A database that cannot be read is emptied and the session starts empty.
Reset == /\ shown' = [s \in Symbols |-> 0]
         /\ saved' = [s \in Symbols |-> 0]

wsNext == Update \/ Save \/ Restart \/ Reset

wsSpec == wsInit /\ [][wsNext]_wsVars
=============================================================================
