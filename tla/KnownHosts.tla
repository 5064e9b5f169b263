----------------------------- MODULE KnownHosts -----------------------------
(***************************************************************************)
(* The known_hosts file of the panel: the key of a host is recorded when   *)
(* the host is first connected to, and a connection to a host that shows   *)
(* another key is refused.  Connections read the whole file first, without *)
(* the mutex, and append under it; a removal reads, truncates and writes   *)
(* under the mutex.  The panel may stop between any two of these steps.    *)
(***************************************************************************)
EXTENDS Naturals, Sequences, Functions

CONSTANTS
    Addrs,   \* addresses: the IPs that connections dial, and domains
    Conns,   \* connections that may be in progress at once
    Removers, NoOne,  \* requests that remove an address, and none of them
    Odd      \* addresses whose port is not 22: recorded as [host]:port

ASSUME KnownHostsAssumption == Odd \subseteq Addrs /\ Addrs # {} /\ NoOne \notin Removers

VARIABLES
    hostsFile,  \* the keys of the lines of each address, in their order
    hostKey,    \* the key of the machine that answers at an address
    conn,       \* each connection: where it is and what it has read
    removal,    \* the removal that holds the mutex
    recorded,   \* history: keys recorded and not taken away by a removal
    outdated    \* history: addresses that may have a line with an old key:
                \* the key changed since their removal, or was recorded late

hostsVars == <<hostsFile, hostKey, conn, removal, recorded, outdated>>

KeyFile == [Addrs -> Seq(Nat)]
Conn == [pc : {"idle", "dialed", "append", "open", "refused"}, addr : Addrs,
         lines : Seq(Nat), key : Nat,
         duringCut : BOOLEAN,   \* it read the file while a removal had cut it
         before : SUBSET Nat]   \* the keys recorded for addr when it read it
Removal == [pc : {"idle", "read", "cut"}, by : Removers \cup {NoOne}, addr : Addrs, kept : KeyFile]

EmptyFile == [a \in Addrs |-> <<>>]
NoConn == [pc |-> "idle", addr |-> CHOOSE a \in Addrs : TRUE, lines |-> <<>>,
           key |-> 0, duringCut |-> FALSE, before |-> {}]
NoRemoval == [pc |-> "idle", by |-> NoOne,
              addr |-> CHOOSE a \in Addrs : TRUE, kept |-> EmptyFile]

HostsInit ==
    /\ hostsFile = EmptyFile /\ hostKey = [a \in Addrs |-> 0]
    /\ conn = [c \in Conns |-> NoConn] /\ removal = NoRemoval
    /\ recorded = [a \in Addrs |-> {}] /\ outdated = {}

-----------------------------------------------------------------------------
(* Connect, and the callback of buildTOFUCallback.                         *)

(* knownhosts.New reads the file, whatever state it is in.                 *)
Dial(c, a) ==
    /\ conn[c].pc \in {"idle", "open", "refused"}
    /\ conn' = [conn EXCEPT ![c] =
                  [pc |-> "dialed", addr |-> a, lines |-> hostsFile[a], key |-> 0,
                   duringCut |-> removal.pc = "cut",
                   before |-> recorded[a]]]
    /\ UNCHANGED <<hostsFile, hostKey, removal, recorded, outdated>>

(* The host shows its key.  Of several lines for a host the first counts.  *)
Verify(c) ==
    LET lines == conn[c].lines
        key == hostKey[conn[c].addr]
    IN /\ conn[c].pc = "dialed"
       /\ conn' = [conn EXCEPT ![c].key = key, ![c].pc =
                     IF lines = <<>> THEN "append"
                     ELSE IF Head(lines) = key THEN "open" ELSE "refused"]
       /\ UNCHANGED <<hostsFile, hostKey, removal, recorded, outdated>>

Appended(a, key) ==
    /\ hostsFile' = [hostsFile EXCEPT ![a] = Append(@, key)]
    /\ recorded' = [recorded EXCEPT ![a] = @ \cup {key}]
    /\ outdated' = IF key = hostKey[a] THEN outdated ELSE outdated \cup {a}

(* Mutant of Record: without the mutex.                                    *)
Record_Unlocked(c) ==
    /\ conn[c].pc = "append" /\ Appended(conn[c].addr, conn[c].key)
    /\ conn' = [conn EXCEPT ![c].pc = "open"]
    /\ UNCHANGED <<hostKey, removal>>

(* An unknown host: recorded under the mutex, and accepted.                *)
Record(c) ==
    /\ conn[c].pc = "append" /\ removal.pc = "idle" /\ Appended(conn[c].addr, conn[c].key)
    /\ conn' = [conn EXCEPT ![c].pc = "open"]
    /\ UNCHANGED <<hostKey, removal>>

-----------------------------------------------------------------------------
(* RemoveKnownHost, for the bare address: it does not match [host]:port.   *)

(* Mutant of Kept: the line that counts goes, those behind it stay.        *)
Kept_FirstOnly(a) ==
    IF a \in Odd \/ hostsFile[a] = <<>> THEN hostsFile
    ELSE [hostsFile EXCEPT ![a] = Tail(@)]

Kept(a) == IF a \in Odd THEN hostsFile ELSE [hostsFile EXCEPT ![a] = <<>>]

RemoveRead(r, a) ==
    /\ removal.pc = "idle"
    /\ removal' = [pc |-> "read", by |-> r, addr |-> a, kept |-> Kept(a)]
    /\ UNCHANGED <<hostsFile, hostKey, conn, recorded, outdated>>

(* os.WriteFile truncates the file before it writes.                       *)
RemoveCut ==
    /\ removal.pc = "read"
    /\ hostsFile' = EmptyFile
    /\ removal' = [removal EXCEPT !.pc = "cut"]
    /\ recorded' = [a \in Addrs |-> IF a = removal.addr /\ a \notin Odd THEN {}
                                   ELSE recorded[a]]
    /\ outdated' = outdated \ ({removal.addr} \ Odd)
    /\ UNCHANGED <<hostKey, conn>>

RemoveWrite(r) ==
    /\ removal.pc = "cut" /\ removal.by = r
    /\ hostsFile' = removal.kept
    /\ removal' = NoRemoval
    /\ UNCHANGED <<hostKey, conn, recorded, outdated>>

-----------------------------------------------------------------------------
(* Another machine answers at a, or the same one was installed anew.       *)
Rekey(a) ==
    /\ hostKey' = [hostKey EXCEPT ![a] = @ + 1]
    /\ outdated' = outdated \cup {a}
    /\ UNCHANGED <<hostsFile, conn, removal, recorded>>

(* The panel stops: a file that was cut is left without its lines.         *)
HostsRestart ==
    /\ conn' = [c \in Conns |-> NoConn] /\ removal' = NoRemoval
    /\ recorded' = IF removal.pc = "cut" THEN [a \in Addrs |-> {}] ELSE recorded
    /\ outdated' = outdated
    /\ UNCHANGED <<hostsFile, hostKey>>

HostsNext ==
    \/ \E c \in Conns : \/ Verify(c) \/ Record(c)
                        \/ \E a \in Addrs : Dial(c, a)
    \/ \E r \in Removers : \/ RemoveWrite(r)
                           \/ \E a \in Addrs : RemoveRead(r, a)
    \/ RemoveCut
    \/ \E a \in Addrs : Rekey(a)
    \/ HostsRestart

HostsSpec == HostsInit /\ [][HostsNext]_hostsVars

-----------------------------------------------------------------------------
(* Properties.                                                             *)

(* Every variable keeps to its domain.                                     *)
HostsTypeOK ==
    /\ hostsFile \in KeyFile /\ hostKey \in [Addrs -> Nat]
    /\ conn \in [Conns -> Conn] /\ removal \in Removal
    /\ recorded \in [Addrs -> SUBSET Nat] /\ outdated \subseteq Addrs

(* client.go:296, 326: no line is lost between a removal's read and its    *)
(* write: while no removal has the file cut, what was recorded is in it.   *)
RecordedHostsStay ==
    removal.pc # "cut" => \A a \in Addrs : recorded[a] \subseteq Range(hostsFile[a])

(* client.go:318-325: a host that was recorded and not removed is accepted *)
(* with a key recorded for it or refused - except by a connection that     *)
(* read the file while a removal had it cut, which knows no host at all.   *)
TrustedKeyHolds ==
    \A c \in Conns :
        conn[c].pc = "open" /\ ~conn[c].duringCut /\ conn[c].before # {} =>
            conn[c].key \in conn[c].before

(* node.go:110-122, install.go:382-391: an address that was removed when   *)
(* its machine changed holds no older key, so the next connection is not   *)
(* refused - on port 22; the line of another port stays.                   *)
CleanedMeansClean ==
    \A a \in Addrs \ (Odd \cup outdated) : Range(hostsFile[a]) \subseteq {hostKey[a]}
=============================================================================
