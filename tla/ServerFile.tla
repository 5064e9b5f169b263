----------------------------- MODULE ServerFile -----------------------------
(***************************************************************************)
(* What the panel promises about config.json on the servers of its nodes,  *)
(* whatever goes wrong underneath: pushes to one node take turns, the      *)
(* configuration of a turn is decided once, and the file is only ever      *)
(* replaced as a whole by the configuration decided in the current turn.   *)
(* A turn may end at any point without having installed anything, and the  *)
(* panel may die.  People with access to a server may change its file.     *)
(***************************************************************************)
EXTENDS Naturals

CONSTANTS Nodes, Addrs, Workers, Config, NoConfig, Foreign, NoWorker

VARIABLES
    file,       \* config.json on each server a node has had
    turn,       \* whose turn it is to push to each node
    decided,    \* the configuration of the current turn, NoConfig before
    touched     \* how often people changed a file on a server

fileVars == <<file, turn, decided, touched>>

FileInit ==
    /\ file = [n \in Nodes |-> [a \in Addrs |-> NoConfig]]
    /\ turn = [n \in Nodes |-> NoWorker]
    /\ decided = [n \in Nodes |-> NoConfig]
    /\ touched = 0

Begin(n, w) ==
    /\ turn[n] = NoWorker
    /\ turn' = [turn EXCEPT ![n] = w]
    /\ UNCHANGED <<file, decided, touched>>

Decide(n, c) ==
    /\ turn[n] # NoWorker /\ decided[n] = NoConfig
    /\ decided' = [decided EXCEPT ![n] = c]
    /\ UNCHANGED <<file, turn, touched>>

Install(n, a) ==
    /\ decided[n] # NoConfig
    /\ file' = [file EXCEPT ![n][a] = decided[n]]
    /\ UNCHANGED <<turn, decided, touched>>

End(n) ==
    /\ turn[n] # NoWorker
    /\ turn' = [turn EXCEPT ![n] = NoWorker]
    /\ decided' = [decided EXCEPT ![n] = NoConfig]
    /\ UNCHANGED <<file, touched>>

Die ==
    /\ turn' = [n \in Nodes |-> NoWorker]
    /\ decided' = [n \in Nodes |-> NoConfig]
    /\ UNCHANGED <<file, touched>>

Changed(n, a) ==
    /\ touched' = touched + 1
    /\ \E c \in {Foreign, NoConfig} : file' = [file EXCEPT ![n][a] = c]
    /\ UNCHANGED <<turn, decided>>

FileNext ==
    \/ \E n \in Nodes :
        \/ \E w \in Workers : Begin(n, w)
        \/ \E c \in Config : Decide(n, c)
        \/ \E a \in Addrs : Install(n, a) \/ Changed(n, a)
        \/ End(n)
    \/ Die

FileSpec == FileInit /\ [][FileNext]_fileVars

=============================================================================
