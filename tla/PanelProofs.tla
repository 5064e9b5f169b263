---------------------------- MODULE PanelProofs -----------------------------
(***************************************************************************)
(* Proofs about the panel's three parts, KnownHosts, Backup and            *)
(* Membership, each alone; and that the panel as a whole implements every  *)
(* one of them, so what is proved of a part alone holds of it in the       *)
(* panel: for any budgets, any addresses and any number of requests and    *)
(* connections.                                                            *)
(***************************************************************************)
EXTENDS Panel, TLAPS

-----------------------------------------------------------------------------
(***************************************************************************)
(* Proofs about KnownHosts, for any addresses, connections and requests.   *)
(***************************************************************************)

(* The file, or what a removal will write back, holds exactly the keys     *)
(* that were recorded and not taken away.                                  *)
FileIsRecorded ==
    /\ removal.pc # "cut" => \A a \in Addrs : Range(hostsFile[a]) = recorded[a]
    /\ removal.pc = "read" =>
           /\ removal.addr \notin Odd => removal.kept[removal.addr] = <<>>
           /\ \A a \in Addrs : a # removal.addr \/ a \in Odd =>
                  removal.kept[a] = hostsFile[a]
    /\ removal.pc = "cut" => \A a \in Addrs : /\ hostsFile[a] = <<>>
                                              /\ Range(removal.kept[a]) = recorded[a]

(* What a connection has loaded is what was recorded then, except when a   *)
(* removal had cut the file.                                               *)
LinesAreRecorded ==
    \A c \in Conns :
        /\ conn[c].pc = "dialed" /\ ~conn[c].duringCut =>
               Range(conn[c].lines) = conn[c].before
        /\ conn[c].pc = "append" /\ ~conn[c].duringCut => conn[c].before = {}

(* No older key is in what a removal will write back.                      *)
KeptIsClean ==
    removal.pc # "idle" =>
        \A a \in Addrs \ (Odd \cup outdated) : Range(removal.kept[a]) \subseteq {hostKey[a]}

HostsInv == /\ HostsTypeOK /\ FileIsRecorded /\ LinesAreRecorded
            /\ TrustedKeyHolds /\ CleanedMeansClean /\ KeptIsClean

-----------------------------------------------------------------------------
(* Lines, and the records they are part of.                                *)

LEMMA RangeOfEmpty == Range(<<>>) = {}
  BY DEF Range

LEMMA RangeOfAppend ==
  ASSUME NEW s \in Seq(Nat), NEW k \in Nat
  PROVE  /\ Append(s, k) \in Seq(Nat)
         /\ Range(Append(s, k)) = Range(s) \cup {k}
  <1> DEFINE t == Append(s, k)
  <1>1. t \in Seq(Nat) /\ Len(t) = Len(s) + 1 /\ Len(s) \in Nat
    OBVIOUS
  <1>2. DOMAIN t = 1 .. Len(s) + 1 /\ DOMAIN s = 1 .. Len(s)
    OBVIOUS
  <1>3. \A i \in 1 .. Len(s) : t[i] = s[i]
    OBVIOUS
  <1>4. t[Len(s) + 1] = k
    OBVIOUS
  <1> HIDE DEF t
  <1>5. Range(t) = Range(s) \cup {k}
    BY <1>1, <1>2, <1>3, <1>4 DEF Range
  <1> QED
    BY <1>1, <1>5 DEF t

LEMMA HeadIsIn ==
  ASSUME NEW s \in Seq(Nat), s # <<>>
  PROVE  Head(s) \in Range(s)
  BY DEF Range

LEMMA EmptyFileType == EmptyFile \in KeyFile
  BY DEF EmptyFile, KeyFile

LEMMA NoConnType == NoConn \in Conn
  <1>1. (CHOOSE a \in Addrs : TRUE) \in Addrs
    BY KnownHostsAssumption
  <1> QED
    BY <1>1 DEF NoConn, Conn

LEMMA NoRemovalType == NoRemoval \in Removal
  <1>1. (CHOOSE a \in Addrs : TRUE) \in Addrs
    BY KnownHostsAssumption
  <1> QED
    BY <1>1, EmptyFileType DEF NoRemoval, Removal

LEMMA ConnWrite ==
  ASSUME NEW r \in Conn, NEW pc \in {"idle", "dialed", "append", "open", "refused"},
         NEW k \in Nat
  PROVE  [r EXCEPT !.key = k, !.pc = pc] \in Conn /\ [r EXCEPT !.pc = pc] \in Conn
  BY DEF Conn

LEMMA KeptType ==
  ASSUME HostsTypeOK, NEW a \in Addrs
  PROVE  Kept(a) \in KeyFile
  BY DEF HostsTypeOK, KeyFile, Kept

-----------------------------------------------------------------------------
(* Types.                                                                  *)

LEMMA HostsInitType == HostsInit => HostsTypeOK
  BY NoConnType, NoRemovalType, EmptyFileType DEF HostsInit, HostsTypeOK

LEMMA DialType ==
  ASSUME HostsTypeOK, NEW c \in Conns, NEW a \in Addrs, Dial(c, a)
  PROVE  HostsTypeOK'
  <1> DEFINE r == [pc |-> "dialed", addr |-> a, lines |-> hostsFile[a], key |-> 0,
                   duringCut |-> removal.pc = "cut", before |-> recorded[a]]
  <1>1. hostsFile[a] \in Seq(Nat) /\ recorded[a] \in SUBSET Nat
    BY DEF HostsTypeOK, KeyFile
  <1>2. (removal.pc = "cut") \in BOOLEAN
    OBVIOUS
  <1>3. r \in Conn
    BY <1>1, <1>2 DEF Conn
  <1>4. conn' = [conn EXCEPT ![c] = r]
    BY DEF Dial
  <1> HIDE DEF r
  <1> QED
    BY <1>3, <1>4 DEF Dial, HostsTypeOK

(* The answer of the host, and what is left of its connection.             *)
Verdict(r, key) == IF r.lines = <<>> THEN "append"
                   ELSE IF Head(r.lines) = key THEN "open" ELSE "refused"

LEMMA VerifyParts ==
  ASSUME HostsTypeOK, NEW c \in Conns, Verify(c)
  PROVE  LET r == conn[c]  key == hostKey[r.addr]
         IN /\ r.pc = "dialed" /\ r \in Conn /\ key \in Nat
            /\ conn' = [conn EXCEPT ![c] = [r EXCEPT !.key = key, !.pc = Verdict(r, key)]]
            /\ UNCHANGED <<hostsFile, hostKey, removal, recorded, outdated>>
  <1>1. conn[c] \in Conn /\ hostKey[conn[c].addr] \in Nat
    BY DEF HostsTypeOK, Conn
  <1> QED
    BY <1>1 DEF Verify, Verdict, HostsTypeOK

LEMMA VerifyType ==
  ASSUME HostsTypeOK, NEW c \in Conns, Verify(c)
  PROVE  HostsTypeOK'
  <1>1. \A r, key : Verdict(r, key) \in {"append", "open", "refused"}
    BY DEF Verdict
  <1> DEFINE key == hostKey[conn[c].addr]
             r == [conn[c] EXCEPT !.key = key, !.pc = Verdict(conn[c], key)]
  <1>2. r \in Conn
    BY <1>1, VerifyParts, ConnWrite
  <1>3. conn' = [conn EXCEPT ![c] = r] /\ UNCHANGED <<hostsFile, hostKey, removal, recorded, outdated>>
    BY VerifyParts
  <1> HIDE DEF r
  <1> QED
    BY <1>2, <1>3 DEF HostsTypeOK

LEMMA RecordParts ==
  ASSUME HostsTypeOK, NEW c \in Conns, Record(c)
  PROVE  LET a == conn[c].addr  key == conn[c].key
         IN /\ conn[c] \in Conn /\ a \in Addrs /\ key \in Nat
            /\ conn[c].pc = "append" /\ removal.pc = "idle"
            /\ conn' = [conn EXCEPT ![c] = [conn[c] EXCEPT !.pc = "open"]]
            /\ hostsFile' = [hostsFile EXCEPT ![a] = Append(hostsFile[a], key)]
            /\ Append(hostsFile[a], key) \in Seq(Nat)
            /\ Range(Append(hostsFile[a], key)) = Range(hostsFile[a]) \cup {key}
            /\ recorded' = [recorded EXCEPT ![a] = recorded[a] \cup {key}]
            /\ outdated' = IF key = hostKey[a] THEN outdated ELSE outdated \cup {a}
            /\ UNCHANGED <<hostKey, removal>>
  <1> DEFINE a == conn[c].addr
             key == conn[c].key
  <1>1. conn[c] \in Conn /\ a \in Addrs /\ key \in Nat
    BY DEF HostsTypeOK, Conn
  <1>2. hostsFile[a] \in Seq(Nat)
    BY <1>1 DEF HostsTypeOK, KeyFile
  <1>3. conn' = [conn EXCEPT ![c] = [conn[c] EXCEPT !.pc = "open"]]
    BY DEF Record, HostsTypeOK
  <1> QED
    BY <1>1, <1>2, <1>3, RangeOfAppend DEF Record, Appended

LEMMA RecordType ==
  ASSUME HostsTypeOK, NEW c \in Conns, Record(c)
  PROVE  HostsTypeOK'
  <1> DEFINE a == conn[c].addr
             key == conn[c].key
             r == [conn[c] EXCEPT !.pc = "open"]
             lines == Append(hostsFile[a], key)
  <1>1. /\ a \in Addrs /\ key \in Nat /\ r \in Conn /\ lines \in Seq(Nat)
        /\ conn' = [conn EXCEPT ![c] = r]
        /\ hostsFile' = [hostsFile EXCEPT ![a] = lines]
        /\ recorded' = [recorded EXCEPT ![a] = recorded[a] \cup {key}]
        /\ outdated' = IF key = hostKey[a] THEN outdated ELSE outdated \cup {a}
        /\ UNCHANGED <<hostKey, removal>>
    BY RecordParts, ConnWrite
  <1> HIDE DEF a, key, r, lines
  <1>2. hostsFile' \in KeyFile
    BY <1>1 DEF HostsTypeOK, KeyFile
  <1>3. recorded' \in [Addrs -> SUBSET Nat] /\ outdated' \subseteq Addrs
    BY <1>1 DEF HostsTypeOK
  <1>4. conn' \in [Conns -> Conn]
    BY <1>1 DEF HostsTypeOK
  <1> QED
    BY <1>1, <1>2, <1>3, <1>4 DEF HostsTypeOK

LEMMA RemovalType ==
  ASSUME HostsTypeOK,
         \/ \E r \in Removers, a \in Addrs : RemoveRead(r, a)
         \/ RemoveCut
         \/ \E r \in Removers : RemoveWrite(r)
  PROVE  HostsTypeOK'
  <1>1. ASSUME NEW r \in Removers, NEW a \in Addrs, RemoveRead(r, a)
        PROVE  HostsTypeOK'
    <2>1. Kept(a) \in KeyFile
      BY KeptType
    <2>2. removal' \in Removal
      BY <1>1, <2>1 DEF RemoveRead, Removal
    <2> QED
      BY <1>1, <2>2 DEF RemoveRead, HostsTypeOK
  <1>2. CASE RemoveCut
    <2>1. removal' \in Removal
      BY <1>2 DEF RemoveCut, HostsTypeOK, Removal
    <2>2. recorded' \in [Addrs -> SUBSET Nat]
      BY <1>2 DEF RemoveCut, HostsTypeOK
    <2> QED
      BY <1>2, <2>1, <2>2, EmptyFileType DEF RemoveCut, HostsTypeOK
  <1>3. ASSUME NEW r \in Removers, RemoveWrite(r) PROVE HostsTypeOK'
    <2>1. removal.kept \in KeyFile
      BY DEF HostsTypeOK, Removal
    <2> QED
      BY <1>3, <2>1, NoRemovalType DEF RemoveWrite, HostsTypeOK
  <1> QED
    BY <1>1, <1>2, <1>3

LEMMA HostsStepType == HostsTypeOK /\ [HostsNext]_hostsVars => HostsTypeOK'
  <1> SUFFICES ASSUME HostsTypeOK, [HostsNext]_hostsVars PROVE HostsTypeOK'
    OBVIOUS
  <1>1. ASSUME NEW a \in Addrs, Rekey(a) PROVE HostsTypeOK'
    BY <1>1 DEF Rekey, HostsTypeOK
  <1>2. CASE HostsRestart
    BY <1>2, NoConnType, NoRemovalType DEF HostsRestart, HostsTypeOK
  <1>3. CASE UNCHANGED hostsVars
    BY <1>3 DEF hostsVars, HostsTypeOK
  <1> QED
    BY <1>1, <1>2, <1>3, DialType, VerifyType, RecordType, RemovalType DEF HostsNext

-----------------------------------------------------------------------------
(* Connections.  Each step writes one connection: what it must satisfy     *)
(* for all of them to do so.                                               *)
Loaded(r) == /\ r.pc = "dialed" /\ ~r.duringCut => Range(r.lines) = r.before
             /\ r.pc = "append" /\ ~r.duringCut => r.before = {}
Trusted(r) == r.pc = "open" /\ ~r.duringCut /\ r.before # {} => r.key \in r.before

LEMMA OneConnection ==
  ASSUME HostsInv, NEW c \in Conns, NEW r, conn' = [conn EXCEPT ![c] = r],
         Loaded(r), Trusted(r)
  PROVE  LinesAreRecorded' /\ TrustedKeyHolds'
  <1>1. \A o \in Conns : conn'[o] = IF o = c THEN r ELSE conn[o]
    BY DEF HostsInv, HostsTypeOK
  <1> QED
    BY <1>1 DEF HostsInv, LinesAreRecorded, TrustedKeyHolds, Loaded, Trusted

LEMMA DialKeeps ==
  ASSUME HostsInv, NEW c \in Conns, NEW a \in Addrs, Dial(c, a)
  PROVE  HostsInv'
  <1> DEFINE r == [pc |-> "dialed", addr |-> a, lines |-> hostsFile[a], key |-> 0,
                   duringCut |-> removal.pc = "cut", before |-> recorded[a]]
  <1>1. HostsTypeOK'
    BY DialType DEF HostsInv
  <1>2. /\ conn' = [conn EXCEPT ![c] = r]
        /\ UNCHANGED <<hostsFile, hostKey, removal, recorded, outdated>>
    BY DEF Dial
  <1>3. Loaded(r) /\ Trusted(r)
    BY DEF Loaded, Trusted, HostsInv, FileIsRecorded
  <1>4. LinesAreRecorded' /\ TrustedKeyHolds'
    BY <1>2, <1>3, OneConnection
  <1> QED
    BY <1>1, <1>2, <1>4 DEF HostsInv, FileIsRecorded, CleanedMeansClean, KeptIsClean

LEMMA VerifyKeeps ==
  ASSUME HostsInv, NEW c \in Conns, Verify(c)
  PROVE  HostsInv'
  <1> DEFINE key == hostKey[conn[c].addr]
             r == [conn[c] EXCEPT !.key = key, !.pc = Verdict(conn[c], key)]
  <1>1. HostsTypeOK'
    BY VerifyType DEF HostsInv
  <1>2. /\ conn[c] \in Conn /\ conn[c].pc = "dialed" /\ key \in Nat
        /\ conn' = [conn EXCEPT ![c] = r]
        /\ UNCHANGED <<hostsFile, hostKey, removal, recorded, outdated>>
    BY VerifyParts DEF HostsInv
  <1>3. /\ r.pc = Verdict(conn[c], key) /\ r.key = key /\ r.before = conn[c].before
        /\ r.duringCut = conn[c].duringCut
    BY <1>2 DEF Conn
  <1>4. ~conn[c].duringCut => Range(conn[c].lines) = conn[c].before
    BY <1>2 DEF HostsInv, LinesAreRecorded
  <1>5. Loaded(r)
    BY <1>3, <1>4, RangeOfEmpty DEF Loaded, Verdict
  <1>6. Trusted(r)
    <2>1. conn[c].lines \in Seq(Nat)
      BY <1>2 DEF Conn
    <2> QED
      BY <2>1, <1>3, <1>4, HeadIsIn DEF Trusted, Verdict
  <1>7. LinesAreRecorded' /\ TrustedKeyHolds'
    BY <1>2, <1>5, <1>6, OneConnection
  <1> QED
    BY <1>1, <1>2, <1>7 DEF HostsInv, FileIsRecorded, CleanedMeansClean, KeptIsClean

LEMMA RecordKeeps ==
  ASSUME HostsInv, NEW c \in Conns, Record(c)
  PROVE  HostsInv'
  <1> DEFINE a == conn[c].addr
             key == conn[c].key
             r == [conn[c] EXCEPT !.pc = "open"]
             lines == Append(hostsFile[a], key)
  <1>1. HostsTypeOK'
    BY RecordType DEF HostsInv
  <1>2. /\ conn[c] \in Conn /\ conn[c].pc = "append" /\ a \in Addrs /\ key \in Nat
        /\ removal.pc = "idle" /\ conn' = [conn EXCEPT ![c] = r]
        /\ hostsFile' = [hostsFile EXCEPT ![a] = lines]
        /\ Range(lines) = Range(hostsFile[a]) \cup {key}
        /\ recorded' = [recorded EXCEPT ![a] = recorded[a] \cup {key}]
        /\ outdated' = IF key = hostKey[a] THEN outdated ELSE outdated \cup {a}
        /\ UNCHANGED <<hostKey, removal>>
    BY RecordParts DEF HostsInv
  <1>3. r.pc = "open" /\ r.before = conn[c].before /\ r.duringCut = conn[c].duringCut
    BY <1>2 DEF Conn
  <1>4. Loaded(r) /\ Trusted(r)
    BY <1>2, <1>3 DEF Loaded, Trusted, HostsInv, LinesAreRecorded
  <1>5. LinesAreRecorded' /\ TrustedKeyHolds'
    BY <1>2, <1>4, OneConnection
  <1> HIDE DEF a, key, r, lines
  <1>6. \A o \in Addrs : /\ hostsFile'[o] = IF o = a THEN lines ELSE hostsFile[o]
                         /\ recorded'[o] = IF o = a THEN recorded[a] \cup {key} ELSE recorded[o]
    BY <1>2 DEF HostsInv, HostsTypeOK, KeyFile
  <1>7. FileIsRecorded'
    BY <1>2, <1>6, ZenonT(40) DEF HostsInv, FileIsRecorded
  <1>8. CleanedMeansClean'
    BY <1>2, <1>6 DEF HostsInv, CleanedMeansClean
  <1> QED
    BY <1>1, <1>2, <1>5, <1>7, <1>8 DEF HostsInv, KeptIsClean

-----------------------------------------------------------------------------
(* Removals, hosts and restarts.                                           *)

LEMMA RemoveReadKeeps ==
  ASSUME HostsInv, NEW r \in Removers, NEW a \in Addrs, RemoveRead(r, a)
  PROVE  HostsInv'
  <1>1. HostsTypeOK'
    BY RemovalType DEF HostsInv
  <1>2. /\ removal.pc = "idle"
        /\ removal' = [pc |-> "read", by |-> r, addr |-> a, kept |-> Kept(a)]
        /\ UNCHANGED <<hostsFile, hostKey, conn, recorded, outdated>>
    BY DEF RemoveRead
  <1>3. /\ a \notin Odd => Kept(a)[a] = <<>>
        /\ \A o \in Addrs : o # a \/ o \in Odd => Kept(a)[o] = hostsFile[o]
    BY DEF Kept, HostsInv, HostsTypeOK, KeyFile
  <1>4. FileIsRecorded'
    BY <1>2, <1>3 DEF HostsInv, FileIsRecorded
  <1>5. KeptIsClean'
    BY <1>2, <1>3, RangeOfEmpty DEF HostsInv, CleanedMeansClean, KeptIsClean
  <1> QED
    BY <1>1, <1>2, <1>4, <1>5
    DEF HostsInv, LinesAreRecorded, TrustedKeyHolds, CleanedMeansClean

LEMMA RemoveCutKeeps == HostsInv /\ RemoveCut => HostsInv'
  <1> SUFFICES ASSUME HostsInv, RemoveCut PROVE HostsInv'
    OBVIOUS
  <1>1. HostsTypeOK'
    BY RemovalType DEF HostsInv
  <1>2. /\ removal.pc = "read" /\ removal'.pc = "cut" /\ removal'.kept = removal.kept
        /\ \A a \in Addrs : hostsFile'[a] = <<>>
        /\ \A a \in Addrs : recorded'[a] = IF a = removal.addr /\ a \notin Odd THEN {}
                                           ELSE recorded[a]
        /\ outdated' = outdated \ ({removal.addr} \ Odd)
        /\ UNCHANGED <<hostKey, conn>>
    BY DEF RemoveCut, HostsInv, HostsTypeOK, Removal, EmptyFile
  <1>3. FileIsRecorded'
    BY <1>2, RangeOfEmpty DEF HostsInv, FileIsRecorded
  <1>4. CleanedMeansClean'
    BY <1>2, RangeOfEmpty DEF CleanedMeansClean
  <1>5. KeptIsClean'
    BY <1>2, RangeOfEmpty DEF HostsInv, FileIsRecorded, KeptIsClean
  <1> QED
    BY <1>1, <1>2, <1>3, <1>4, <1>5 DEF HostsInv, LinesAreRecorded, TrustedKeyHolds

LEMMA RemoveWriteKeeps ==
  ASSUME HostsInv, NEW r \in Removers, RemoveWrite(r)
  PROVE  HostsInv'
  <1>1. HostsTypeOK'
    BY RemovalType DEF HostsInv
  <1>2. /\ removal.pc = "cut" /\ removal'.pc = "idle" /\ hostsFile' = removal.kept
        /\ UNCHANGED <<hostKey, conn, recorded, outdated>>
    BY DEF RemoveWrite, NoRemoval
  <1> QED
    BY <1>1, <1>2 DEF HostsInv, FileIsRecorded, LinesAreRecorded, TrustedKeyHolds,
                      CleanedMeansClean, KeptIsClean

LEMMA RekeyKeeps ==
  ASSUME HostsInv, NEW a \in Addrs, Rekey(a)
  PROVE  HostsInv'
  <1>1. HostsTypeOK'
    BY HostsStepType DEF HostsInv, HostsNext
  <1>2. /\ \A o \in Addrs : o # a => hostKey'[o] = hostKey[o]
        /\ outdated' = outdated \cup {a}
        /\ UNCHANGED <<hostsFile, conn, removal, recorded>>
    BY DEF Rekey, HostsInv, HostsTypeOK
  <1> QED
    BY <1>1, <1>2 DEF HostsInv, FileIsRecorded, LinesAreRecorded, TrustedKeyHolds,
                      CleanedMeansClean, KeptIsClean

LEMMA HostsRestartKeeps == HostsInv /\ HostsRestart => HostsInv'
  <1> SUFFICES ASSUME HostsInv, HostsRestart PROVE HostsInv'
    OBVIOUS
  <1>1. HostsTypeOK'
    BY HostsStepType DEF HostsInv, HostsNext
  <1>2. /\ \A c \in Conns : conn'[c].pc = "idle"
        /\ removal'.pc = "idle"
        /\ recorded' = IF removal.pc = "cut" THEN [a \in Addrs |-> {}] ELSE recorded
        /\ UNCHANGED <<hostsFile, hostKey, outdated>>
    BY DEF HostsRestart, NoConn, NoRemoval
  <1>3. FileIsRecorded'
    BY <1>2, RangeOfEmpty DEF HostsInv, FileIsRecorded
  <1> QED
    BY <1>1, <1>2, <1>3 DEF HostsInv, LinesAreRecorded, TrustedKeyHolds,
                            CleanedMeansClean, KeptIsClean

-----------------------------------------------------------------------------
(* The results.                                                            *)

LEMMA HostsInitInv == HostsInit => HostsInv
  BY HostsInitType, RangeOfEmpty
  DEF HostsInit, NoConn, NoRemoval, EmptyFile, HostsInv, FileIsRecorded, LinesAreRecorded,
      TrustedKeyHolds, CleanedMeansClean, KeptIsClean

LEMMA HostsStepInv == HostsInv /\ [HostsNext]_hostsVars => HostsInv'
  <1> SUFFICES ASSUME HostsInv, [HostsNext]_hostsVars PROVE HostsInv'
    OBVIOUS
  <1>1. CASE UNCHANGED hostsVars
    BY <1>1 DEF hostsVars, HostsInv, HostsTypeOK, FileIsRecorded, LinesAreRecorded,
                TrustedKeyHolds, CleanedMeansClean, KeptIsClean
  <1>2. CASE HostsNext
    BY <1>2, DialKeeps, VerifyKeeps, RecordKeeps, RemoveReadKeeps, RemoveCutKeeps,
       RemoveWriteKeeps, RekeyKeeps, HostsRestartKeeps
    DEF HostsNext
  <1> QED
    BY <1>1, <1>2

(* client.go: the file, the connections and the removal keep to their      *)
(* domains.                                                                *)
THEOREM HostsTypes == HostsSpec => []HostsTypeOK
  <1>1. HostsInv => HostsTypeOK
    BY DEF HostsInv
  <1> QED
    BY <1>1, HostsInitInv, HostsStepInv, PTL DEF HostsSpec

(* client.go:296, 326: connections that append and removals that rewrite   *)
(* the file lose no line of each other.                                    *)
THEOREM LinesStay == HostsSpec => []RecordedHostsStay
  <1>1. HostsInv => RecordedHostsStay
    BY DEF HostsInv, FileIsRecorded, RecordedHostsStay
  <1> QED
    BY <1>1, HostsInitInv, HostsStepInv, PTL DEF HostsSpec

(* client.go:318-325: a host that is known is never accepted with another  *)
(* key, whatever is removed, recorded or interrupted meanwhile.            *)
THEOREM KnownKeysHold == HostsSpec => []TrustedKeyHolds
  <1>1. HostsInv => TrustedKeyHolds
    BY DEF HostsInv
  <1> QED
    BY <1>1, HostsInitInv, HostsStepInv, PTL DEF HostsSpec

(* node.go:110-122, install.go:382-391: no old key is left, or written     *)
(* back, for an address that was removed after its machine changed.        *)
THEOREM RemovedKeysAreGone == HostsSpec => []CleanedMeansClean
  <1>1. HostsInv => CleanedMeansClean
    BY DEF HostsInv
  <1> QED
    BY <1>1, HostsInitInv, HostsStepInv, PTL DEF HostsSpec

-----------------------------------------------------------------------------
(***************************************************************************)
(* Proofs about Backup, for any clock and any retention.                   *)
(***************************************************************************)

Busy(m) == maker[m].pc \in {"chosen", "vacuum"}

(* What a name still to be written cannot be: reported, unless somebody    *)
(* else chose it too or it was deleted.  Names are seconds that have been, *)
(* and no backup is older than its name.                                   *)
NamesAreFresh ==
    /\ \A m \in Makers : maker[m].name <= now
    /\ \A s \in reported : written[s] >= s
    /\ \A s \in Names : backupFile[s] = "whole" => s \in reported
    /\ \A m \in Makers :
           Busy(m) => maker[m].name \notin reported \ (removed \cup contested)
    /\ \A m, o \in Makers :
           m # o /\ Busy(m) /\ Busy(o) /\ maker[m].name = maker[o].name =>
               maker[m].name \in contested

(* The scheduler cleans up behind a backup it has just reported.           *)
CleansBehindSuccess ==
    removed \cup contested = {} /\ maker[Scheduler].pc = "clean" =>
        LET s == maker[Scheduler].name
        IN s \in reported /\ backupFile[s] = "whole" /\ ~Expired(s)

BackupInv == /\ BackupTypeOK /\ NamesAreFresh /\ ReportedBackupsStay
             /\ CleansBehindSuccess /\ RetentionLeavesOne

-----------------------------------------------------------------------------
(* Types.                                                                  *)

LEMMA BackupInitType == BackupInit => BackupTypeOK
  BY BackupAssumption DEF BackupInit, BackupTypeOK, Names, Makers, Run, NoRun

LEMMA NoRunType == NoRun \in Run
  BY BackupAssumption DEF NoRun, Run, Names

LEMMA MakerWrite ==
  ASSUME BackupTypeOK, NEW m \in Makers,
         NEW pc \in {"idle", "chosen", "vacuum", "clean"},
         maker' = [maker EXCEPT ![m].pc = pc]
  PROVE  /\ maker' \in [Makers -> Run]
         /\ maker'[m].pc = pc
         /\ \A o \in Makers : o # m => maker'[o] = maker[o]
         /\ \A o \in Makers : maker'[o].name = maker[o].name
  BY DEF BackupTypeOK, Run

LEMMA SchedulerMakes == Scheduler \in Makers
  BY DEF Makers

LEMMA BackupStepType == BackupTypeOK /\ [BackupNext]_backupVars => BackupTypeOK'
  <1> SUFFICES ASSUME BackupTypeOK, [BackupNext]_backupVars PROVE BackupTypeOK'
    OBVIOUS
  <1> USE DEF BackupTypeOK
  <1>1. CASE Tick
    <2>1. now' \in Names
      BY <1>1, BackupAssumption DEF Tick, Names
    <2> QED
      BY <1>1, <2>1 DEF Tick
  <1>2. ASSUME NEW m \in Makers, Choose(m) PROVE BackupTypeOK'
    <2>1. [pc |-> "chosen", name |-> now] \in Run
      BY DEF Run
    <2> QED
      BY <1>2, <2>1 DEF Choose
  <1>3. ASSUME NEW m \in Makers, Vacuum(m) PROVE BackupTypeOK'
    BY <1>3, MakerWrite DEF Vacuum
  <1>4. ASSUME NEW m \in Makers, Finish(m) PROVE BackupTypeOK'
    <2>1. maker[m].name \in Names
      BY DEF Run
    <2>2. maker' \in [Makers -> Run]
      BY <1>4, MakerWrite DEF Finish, AfterSuccess, AfterFailure
    <2> QED
      BY <1>4, <2>1, <2>2 DEF Finish
  <1>5. ASSUME NEW m \in Makers, Fail(m) PROVE BackupTypeOK'
    BY <1>5, MakerWrite DEF Fail, AfterFailure
  <1>6. CASE Clean
    BY <1>6, MakerWrite, SchedulerMakes DEF Clean
  <1>7. ASSUME NEW s \in Names, DeleteBackup(s) PROVE BackupTypeOK'
    BY <1>7 DEF DeleteBackup
  <1>8. CASE BackupRestart
    BY <1>8, NoRunType DEF BackupRestart
  <1>9. CASE UNCHANGED backupVars
    BY <1>9 DEF backupVars
  <1> QED
    BY <1>1, <1>2, <1>3, <1>4, <1>5, <1>6, <1>7, <1>8, <1>9 DEF BackupNext

(* The clock only moves on, and what has outlived the retention stays so.  *)
LEMMA Times ==
  ASSUME BackupTypeOK
  PROVE  /\ now \in Nat /\ Keep \in Nat
         /\ \A s \in Names : s \in Nat /\ written[s] \in Nat
         /\ \A m \in Makers : maker[m] \in Run /\ maker[m].name \in Names
  <1>1. \A s \in Names : s \in Nat
    BY BackupAssumption DEF Names
  <1>2. now \in Names /\ \A s \in Names : written[s] \in Names
    BY DEF BackupTypeOK
  <1>3. \A m \in Makers : maker[m] \in Run /\ maker[m].name \in Names
    BY DEF BackupTypeOK, Run
  <1> QED
    BY <1>1, <1>2, <1>3, BackupAssumption

-----------------------------------------------------------------------------
(* Steps that leave the files as they are, or take one that is excepted.   *)

LEMMA TickKeeps == BackupInv /\ Tick => BackupInv'
  <1> SUFFICES ASSUME BackupInv, Tick PROVE BackupInv'
    OBVIOUS
  <1>1. BackupTypeOK'
    BY BackupStepType DEF BackupInv, BackupNext
  <1>2. /\ now \in Nat /\ now' = now + 1 /\ Keep \in Nat
        /\ \A s \in Names : written[s] \in Nat
        /\ UNCHANGED <<backupFile, written, maker, reported, removed, contested>>
    BY Times DEF BackupInv, Tick
  <1>3. NamesAreFresh'
    <2>1. \A m \in Makers : maker[m].name <= now + 1
      BY <1>2, Times DEF BackupInv, NamesAreFresh, Names
    <2> QED
      BY <1>2, <2>1 DEF BackupInv, NamesAreFresh, Busy
  <1>4. \A s \in Names : Expired(s) => Expired(s)'
    BY <1>2 DEF Expired
  <1>5. ReportedBackupsStay'
    BY <1>2, <1>4 DEF BackupInv, BackupTypeOK, ReportedBackupsStay
  <1>6. CleansBehindSuccess'
    <2> SUFFICES ASSUME removed \cup contested = {}, maker[Scheduler].pc = "clean"
                 PROVE  ~Expired(maker[Scheduler].name)'
      BY <1>2 DEF BackupInv, CleansBehindSuccess
    <2>1. Keep > 0 => now < written[maker[Scheduler].name] + Keep
      BY DEF Tick
    <2>2. written[maker[Scheduler].name] \in Nat
      BY <1>2, Times, SchedulerMakes DEF BackupInv
    <2> QED
      BY <1>2, <2>1, <2>2 DEF Expired
  <1>7. RetentionLeavesOne'
    BY <1>2 DEF BackupInv, RetentionLeavesOne
  <1> QED
    BY <1>1, <1>3, <1>5, <1>6, <1>7 DEF BackupInv

LEMMA DeleteKeeps ==
  ASSUME BackupInv, NEW s \in Names, DeleteBackup(s)
  PROVE  BackupInv'
  <1>1. BackupTypeOK'
    BY BackupStepType DEF BackupInv, BackupNext
  <1>2. /\ backupFile' = [backupFile EXCEPT ![s] = "none"]
        /\ removed' = removed \cup {s}
        /\ UNCHANGED <<now, written, maker, reported, contested>>
    BY DEF DeleteBackup
  <1>3. \A o \in Names : backupFile'[o] = IF o = s THEN "none" ELSE backupFile[o]
    BY <1>2 DEF BackupInv, BackupTypeOK
  <1>4. NamesAreFresh'
    BY <1>2, <1>3 DEF BackupInv, NamesAreFresh, Busy
  <1>5. ReportedBackupsStay'
    BY <1>2, <1>3 DEF BackupInv, BackupTypeOK, ReportedBackupsStay, Expired
  <1>6. removed' # {}
    BY <1>2
  <1> QED
    BY <1>1, <1>4, <1>5, <1>6 DEF BackupInv, CleansBehindSuccess, RetentionLeavesOne

LEMMA BackupRestartKeeps == BackupInv /\ BackupRestart => BackupInv'
  <1> SUFFICES ASSUME BackupInv, BackupRestart PROVE BackupInv'
    OBVIOUS
  <1>1. BackupTypeOK'
    BY BackupStepType DEF BackupInv, BackupNext
  <1>2. /\ \A m \in Makers : maker'[m].pc = "idle" /\ maker'[m].name = 0
        /\ UNCHANGED <<now, backupFile, written, reported, removed, contested>>
    BY DEF BackupRestart, NoRun
  <1>3. NamesAreFresh'
    BY <1>2, Times DEF BackupInv, NamesAreFresh, Busy
  <1> QED
    BY <1>1, <1>2, <1>3, SchedulerMakes
    DEF BackupInv, ReportedBackupsStay, Expired, CleansBehindSuccess, RetentionLeavesOne

-----------------------------------------------------------------------------
(* Steps of a run.                                                         *)

LEMMA ChooseKeeps ==
  ASSUME BackupInv, NEW m \in Makers, Choose(m)
  PROVE  BackupInv'
  <1> USE DEF BackupInv
  <1>1. BackupTypeOK'
    BY BackupStepType DEF BackupNext
  <1>2. /\ maker[m].pc = "idle" /\ backupFile[now] = "none"
        /\ maker'[m].pc = "chosen" /\ maker'[m].name = now
        /\ \A o \in Makers : o # m => maker'[o] = maker[o]
        /\ UNCHANGED <<now, backupFile, written, reported, removed>>
        /\ contested \subseteq contested'
    BY DEF Choose, NameIsFree, BackupTypeOK
  <1>3. ASSUME NEW o \in Makers, o # m, Busy(o), maker[o].name = now
        PROVE  now \in contested'
    BY <1>3 DEF Choose, Busy
  <1>4. now \notin reported \ (removed \cup contested)
    <2> SUFFICES ASSUME now \in reported \ (removed \cup contested) PROVE FALSE
      OBVIOUS
    <2>1. Expired(now)
      BY <1>2 DEF ReportedBackupsStay
    <2>2. written[now] >= now
      BY DEF NamesAreFresh
    <2>3. now \in Nat /\ Keep \in Nat /\ written[now] \in Nat
      BY Times DEF BackupTypeOK
    <2> QED
      BY <2>1, <2>2, <2>3 DEF Expired
  <1>5. NamesAreFresh'
    <2>1. \A o \in Makers : maker'[o].name <= now
      BY <1>2, Times DEF NamesAreFresh
    <2>2. ASSUME NEW o \in Makers, Busy(o)'
          PROVE  maker'[o].name \notin reported \ (removed \cup contested')
      BY <2>2, <1>2, <1>4 DEF NamesAreFresh, Busy
    <2>3. ASSUME NEW o \in Makers, NEW r \in Makers, o # r, Busy(o)', Busy(r)',
                 maker'[o].name = maker'[r].name
          PROVE  maker'[o].name \in contested'
      BY <2>3, <1>2, <1>3 DEF NamesAreFresh, Busy
    <2> QED
      BY <1>2, <2>1, <2>2, <2>3 DEF NamesAreFresh
  <1>6. ReportedBackupsStay'
    BY <1>2 DEF ReportedBackupsStay, Expired
  <1>7. CleansBehindSuccess'
    BY <1>2, SchedulerMakes DEF CleansBehindSuccess, Expired
  <1>8. RetentionLeavesOne'
    BY <1>2 DEF RetentionLeavesOne
  <1> QED
    BY <1>1, <1>5, <1>6, <1>7, <1>8

(* Writing a file under a name that is not reported yet.                   *)
LEMMA WriteKeeps ==
  ASSUME BackupInv, BackupTypeOK', NEW m \in Makers, Busy(m),
         NEW x \in {"none", "part", "whole"},
         backupFile' = [backupFile EXCEPT ![maker[m].name] = x],
         \/ UNCHANGED written
         \/ written' = [written EXCEPT ![maker[m].name] = now],
         reported' = IF x = "whole" THEN reported \cup {maker[m].name} ELSE reported,
         x = "whole" => written'[maker[m].name] = now,
         UNCHANGED <<now, removed, contested>>,
         \A o \in Makers : maker'[o].name = maker[o].name,
         \A o \in Makers : Busy(o)' => Busy(o),
         x = "whole" => ~Busy(m)',
         \A o \in Makers : o # m => maker'[o] = maker[o],
         maker'[Scheduler].pc = "clean" /\ m = Scheduler => x = "whole"
  PROVE  BackupInv'
  <1> DEFINE name == maker[m].name
             Counted == reported \ (removed \cup contested)
  <1> USE DEF BackupInv
  <1>1. /\ name \in Names /\ name <= now /\ now \in Nat /\ name \in Nat /\ Keep \in Nat
        /\ \A s \in Names : s \in Nat /\ written[s] \in Nat /\ written'[s] \in Nat
        /\ written'[name] \in {written[name], now}
    BY Times, NoRunType DEF NamesAreFresh, BackupTypeOK
  <1>2. \A s \in Names : s # name => /\ backupFile'[s] = backupFile[s]
                                     /\ written'[s] = written[s]
    BY DEF BackupTypeOK
  <1>3. backupFile'[name] = x
    BY <1>1 DEF BackupTypeOK
  <1>4. name \notin Counted
    BY DEF NamesAreFresh
  <1>5. reported \subseteq Names /\ reported' \subseteq Names
    BY DEF BackupTypeOK
  <1>6. NamesAreFresh'
    <2>1. ASSUME NEW s \in reported' PROVE written'[s] >= s
      <3>1. CASE s # name
        BY <3>1, <1>2, <1>5 DEF NamesAreFresh
      <3>2. CASE s = name /\ s \in reported
        BY <3>2, <1>1 DEF NamesAreFresh
      <3>3. CASE s = name /\ s \notin reported
        BY <3>3, <1>1
      <3> QED
        BY <3>1, <3>2, <3>3
    <2>2. ASSUME NEW s \in Names, backupFile'[s] = "whole" PROVE s \in reported'
      BY <2>2, <1>2, <1>3 DEF NamesAreFresh
    <2>3. ASSUME NEW o \in Makers, Busy(o)'
          PROVE  maker'[o].name \notin reported' \ (removed' \cup contested')
      BY <2>3 DEF NamesAreFresh
    <2>4. ASSUME NEW o \in Makers, NEW r \in Makers, o # r, Busy(o)', Busy(r)',
                 maker'[o].name = maker'[r].name
          PROVE  maker'[o].name \in contested'
      BY <2>4 DEF NamesAreFresh
    <2> QED
      BY <2>1, <2>2, <2>3, <2>4 DEF NamesAreFresh
  <1>7. ReportedBackupsStay'
    <2> SUFFICES ASSUME NEW s \in reported', s \notin removed \cup contested
                 PROVE  Expired(s)' \/ backupFile'[s] = "whole"
      BY DEF ReportedBackupsStay
    <2>1. CASE s = name
      BY <2>1, <1>3, <1>4
    <2>2. CASE s # name
      BY <2>2, <1>2, <1>5 DEF ReportedBackupsStay, Expired
    <2> QED
      BY <2>1, <2>2
  <1>8. CleansBehindSuccess'
    <2> DEFINE last == maker[Scheduler].name
    <2>1. maker'[Scheduler].name = last /\ last \in Names
      BY SchedulerMakes, Times
    <2>2. ASSUME removed \cup contested = {}, maker'[Scheduler].pc = "clean"
          PROVE  /\ last \in reported' /\ backupFile'[last] = "whole"
                 /\ ~(Keep > 0 /\ written'[last] + Keep < now)
      <3>1. CASE m = Scheduler
        BY <2>2, <3>1, <1>1, <1>3
      <3>2. CASE m # Scheduler
        <4>1. maker[Scheduler].pc = "clean"
          BY <2>2, <3>2, SchedulerMakes
        <4>2. /\ last \in reported /\ backupFile[last] = "whole"
              /\ ~(Keep > 0 /\ written[last] + Keep < now)
          BY <2>2, <4>1 DEF CleansBehindSuccess, Expired
        <4>3. last # name
          BY <2>2, <4>2, <1>4
        <4> QED
          BY <2>1, <4>2, <4>3, <1>2
      <3> QED
        BY <3>1, <3>2
    <2> QED
      BY <2>1, <2>2 DEF CleansBehindSuccess, Expired
  <1>9. RetentionLeavesOne'
    <2>1. CASE x = "whole"
      BY <2>1, <1>1, <1>3 DEF RetentionLeavesOne
    <2>2. CASE x # "whole"
      BY <2>2, <1>2, <1>4 DEF RetentionLeavesOne, NamesAreFresh
    <2> QED
      BY <2>1, <2>2
  <1> QED
    BY <1>6, <1>7, <1>8, <1>9

LEMMA RunKeeps ==
  ASSUME BackupInv, NEW m \in Makers, Vacuum(m) \/ Finish(m) \/ Fail(m)
  PROVE  BackupInv'
  <1> DEFINE name == maker[m].name
  <1>1. BackupTypeOK /\ BackupTypeOK'
    BY BackupStepType DEF BackupInv, BackupNext
  <1>2. CASE Vacuum(m)
    <2>1. /\ maker'[m].pc = "vacuum" /\ \A o \in Makers : maker'[o].name = maker[o].name
          /\ \A o \in Makers : o # m => maker'[o] = maker[o]
      BY <1>1, <1>2, MakerWrite DEF Vacuum
    <2>2. /\ Busy(m) /\ backupFile' = [backupFile EXCEPT ![name] = "part"]
          /\ written' = [written EXCEPT ![name] = now]
          /\ UNCHANGED <<now, reported, removed, contested>>
      BY <1>2 DEF Vacuum, Busy
    <2>3. \A o \in Makers : Busy(o)' => Busy(o)
      BY <2>1, <2>2 DEF Busy
    <2> QED
      BY <1>1, <2>1, <2>2, <2>3, WriteKeeps
  <1>3. CASE Fail(m)
    <2>1. /\ maker'[m].pc = "idle" /\ \A o \in Makers : maker'[o].name = maker[o].name
          /\ \A o \in Makers : o # m => maker'[o] = maker[o]
      BY <1>1, <1>3, MakerWrite DEF Fail, AfterFailure
    <2>2. /\ Busy(m) /\ backupFile' = [backupFile EXCEPT ![name] = "none"]
          /\ UNCHANGED <<now, written, reported, removed, contested>>
      BY <1>3 DEF Fail, Busy
    <2>3. \A o \in Makers : Busy(o)' => Busy(o)
      BY <2>1, <2>2 DEF Busy
    <2> QED
      BY <1>1, <2>1, <2>2, <2>3, WriteKeeps
  <1>4. CASE Finish(m)
    <2> DEFINE made == backupFile[name] = "part"
               x == IF made THEN "whole" ELSE backupFile[name]
    <2>1. /\ maker'[m].pc = IF made THEN AfterSuccess(m) ELSE "idle"
          /\ \A o \in Makers : maker'[o].name = maker[o].name
          /\ \A o \in Makers : o # m => maker'[o] = maker[o]
      BY <1>1, <1>4, MakerWrite DEF Finish, AfterSuccess, AfterFailure
    <2>2. /\ Busy(m) /\ backupFile' = [backupFile EXCEPT ![name] = x]
          /\ written' = [written EXCEPT ![name] = now]
          /\ reported' = IF made THEN reported \cup {name} ELSE reported
          /\ UNCHANGED <<now, removed, contested>>
      BY <1>4 DEF Finish, Busy
    <2>3. name \in Names /\ written'[name] = now /\ x \in {"none", "part", "whole"}
      BY <1>1, <2>2, Times DEF BackupTypeOK
    <2>4. ~Busy(m)' /\ \A o \in Makers : Busy(o)' => Busy(o)
      BY <2>1, <2>2 DEF Busy, AfterSuccess
    <2>5. CASE made
      BY <1>1, <2>1, <2>2, <2>3, <2>4, <2>5, WriteKeeps
    <2>6. CASE ~made
      <3>1. maker'[m].pc = "idle" /\ reported' = reported
        BY <2>1, <2>2, <2>6
      <3>2. x = "whole" => name \in reported
        BY <2>3, <2>6 DEF BackupInv, NamesAreFresh
      <3>3. reported' = IF x = "whole" THEN reported \cup {name} ELSE reported
        BY <3>1, <3>2
      <3> QED
        BY <1>1, <2>1, <2>2, <2>3, <2>4, <3>1, <3>3, WriteKeeps
    <2> QED
      BY <2>5, <2>6
  <1> QED
    BY <1>2, <1>3, <1>4

(* The clean-up takes what has outlived the retention, and not the backup  *)
(* it follows.                                                             *)
LEMMA CleanKeeps == BackupInv /\ Clean => BackupInv'
  <1> SUFFICES ASSUME BackupInv, Clean PROVE BackupInv'
    OBVIOUS
  <1> USE DEF BackupInv
  <1>1. BackupTypeOK'
    BY BackupStepType DEF BackupNext
  <1>2. /\ maker[Scheduler].pc = "clean" /\ maker'[Scheduler].pc = "idle"
        /\ \A m \in Makers : maker'[m].name = maker[m].name
        /\ \A m \in Makers : m # Scheduler => maker'[m] = maker[m]
        /\ UNCHANGED <<now, written, reported, removed, contested>>
    BY MakerWrite, SchedulerMakes DEF Clean
  <1>3. \A s \in Names : backupFile'[s] = IF Expired(s) THEN "none" ELSE backupFile[s]
    BY DEF Clean
  <1>4. \A m \in Makers : Busy(m)' => Busy(m)
    BY <1>2 DEF Busy
  <1>5. NamesAreFresh'
    BY <1>2, <1>3, <1>4 DEF NamesAreFresh
  <1>6. ReportedBackupsStay'
    BY <1>2, <1>3 DEF BackupTypeOK, ReportedBackupsStay, Expired
  <1>7. CleansBehindSuccess'
    BY <1>2 DEF CleansBehindSuccess
  <1>8. RetentionLeavesOne'
    <2> SUFFICES ASSUME removed \cup contested = {}
                 PROVE  \E s \in Names : backupFile'[s] = "whole"
      BY <1>2 DEF RetentionLeavesOne
    <2>1. maker[Scheduler].name \in Names
      BY Times, SchedulerMakes
    <2> QED
      BY <1>2, <1>3, <2>1 DEF CleansBehindSuccess
  <1> QED
    BY <1>1, <1>5, <1>6, <1>7, <1>8

-----------------------------------------------------------------------------
(* The results.                                                            *)

LEMMA BackupInitInv == BackupInit => BackupInv
  <1> SUFFICES ASSUME BackupInit PROVE BackupInv
    OBVIOUS
  <1>1. BackupTypeOK
    BY BackupInitType
  <1>2. NamesAreFresh
    BY <1>1, Times DEF BackupInit, NoRun, NamesAreFresh, Busy
  <1> QED
    BY <1>1, <1>2, SchedulerMakes
    DEF BackupInit, NoRun, BackupInv, ReportedBackupsStay, CleansBehindSuccess,
        RetentionLeavesOne

LEMMA BackupStepInv == BackupInv /\ [BackupNext]_backupVars => BackupInv'
  <1> SUFFICES ASSUME BackupInv, [BackupNext]_backupVars PROVE BackupInv'
    OBVIOUS
  <1>1. CASE UNCHANGED backupVars
    <2>1. BackupTypeOK'
      BY <1>1, BackupStepType DEF BackupInv
    <2> QED
      BY <1>1, <2>1
      DEF backupVars, BackupInv, NamesAreFresh, Busy, ReportedBackupsStay, Expired,
          CleansBehindSuccess, RetentionLeavesOne
  <1>2. CASE BackupNext
    BY <1>2, TickKeeps, DeleteKeeps, BackupRestartKeeps, ChooseKeeps, RunKeeps, CleanKeeps
    DEF BackupNext
  <1> QED
    BY <1>1, <1>2

(* backup.go: file names, times and runs keep to their domains.            *)
THEOREM BackupTypes == BackupSpec => []BackupTypeOK
  <1>1. BackupInit => BackupTypeOK
    BY BackupInitType
  <1>2. BackupTypeOK /\ [BackupNext]_backupVars => BackupTypeOK'
    BY BackupStepType
  <1> QED
    BY <1>1, <1>2, PTL DEF BackupSpec

(* backup.go:93-104, 196-206: whatever runs, fails and restarts, a backup  *)
(* that was reported stays whole until the retention takes it, unless an   *)
(* administrator deletes it or two runs chose its name.                    *)
THEOREM BackupsStay == BackupSpec => []ReportedBackupsStay
  <1>1. BackupInv => ReportedBackupsStay
    BY DEF BackupInv
  <1> QED
    BY <1>1, BackupInitInv, BackupStepInv, PTL DEF BackupSpec

(* backup.go:213-220: after the first success the clean-up always leaves a *)
(* whole backup, however many runs fail after it.                          *)
THEOREM OneBackupIsLeft == BackupSpec => []RetentionLeavesOne
  <1>1. BackupInv => RetentionLeavesOne
    BY DEF BackupInv
  <1> QED
    BY <1>1, BackupInitInv, BackupStepInv, PTL DEF BackupSpec

-----------------------------------------------------------------------------
(***************************************************************************)
(* Proofs about Membership, for any users, groups, nodes and requests.     *)
(***************************************************************************)

(* What requests work on: groups that are, or were, there, and users that  *)
(* were.                                                                   *)
RequestOK(r) == /\ r.pc \in {"saveGroup", "links"} => group[r.g] # "none"
                /\ r.pc = "saveUser" => r.row.state # "none"

LinksHaveGroups ==
    /\ \A l \in userGroups : group[l[2]] # "none"
    /\ \A l \in groupNodes : group[l[1]] # "none"
    /\ \A p \in Admins : RequestOK(req[p])

(* Some request is about to mark n.                                        *)
Pending(n) ==
    \E p \in Admins :
        \/ req[p].pc = "markAll"
        \/ req[p].pc = "markGroup" /\ n \in NodesRead(req[p]) \cup req[p].ids

Fresh(n) == /\ node[n].exists /\ node[n].status = "synced"
            /\ n \notin excused \cup Dangling

(* A node that shows synced, switched off or not, is current or will be    *)
(* marked.                                                                 *)
CurrentOrPending ==
    ~overtaken => \A n \in Nodes : Fresh(n) => pushed[n] = Wanted(n) \/ Pending(n)

MembershipInv == /\ MembershipTypeOK /\ LinksHaveGroups
                 /\ RevokedStaysRevoked /\ CurrentOrPending

-----------------------------------------------------------------------------
(* Types.                                                                  *)

LEMMA NoNodeType == NoNode \in NodeRow
  BY DEF NoNode, NodeRow

LEMMA IdleType == Idle \in Request
  <1>1. /\ (CHOOSE any \in Users : TRUE) \in Users
        /\ (CHOOSE any \in Groups : TRUE) \in Groups
        /\ (CHOOSE any \in Nodes : TRUE) \in Nodes
    BY MembershipAssumption
  <1>2. NoUser \in UserRow /\ [n \in Nodes |-> NoNode] \in [Nodes -> NodeRow]
    BY NoNodeType DEF NoUser, UserRow
  <1> QED
    BY <1>1, <1>2 DEF Idle, Request

Pcs == {"idle", "saveUser", "toggleUser", "markAll", "saveGroup", "links",
        "markGroup", "unpin", "saveNode"}

LEMMA RequestParts ==
  ASSUME NEW r \in Request
  PROVE  /\ r.pc \in Pcs /\ r.u \in Users /\ r.row \in UserRow /\ r.member \subseteq Groups
         /\ r.g \in Groups /\ r.ids \subseteq Nodes /\ r.n \in Nodes
         /\ r.rows \in [Nodes -> NodeRow]
  BY DEF Request, Pcs

LEMMA PcWrite ==
  ASSUME NEW r \in Request, NEW pc \in Pcs
  PROVE  [r EXCEPT !.pc = pc] \in Request
  BY DEF Request, Pcs

LEMMA UserRequest ==
  ASSUME NEW r \in Request, NEW pc \in Pcs, NEW u \in Users, NEW row \in UserRow,
         NEW S \in SUBSET Groups
  PROVE  [r EXCEPT !.pc = pc, !.u = u, !.row = row, !.member = S] \in Request
  BY DEF Request, Pcs

LEMMA GroupRequest ==
  ASSUME NEW r \in Request, NEW pc \in Pcs, NEW g \in Groups, NEW N \in SUBSET Nodes
  PROVE  /\ [r EXCEPT !.pc = pc, !.g = g, !.ids = N] \in Request
         /\ [r EXCEPT !.pc = pc, !.ids = N] \in Request
  BY DEF Request, Pcs

LEMMA RowsRequest ==
  ASSUME NEW r \in Request, NEW pc \in Pcs, NEW g \in Groups,
         NEW rows \in [Nodes -> NodeRow]
  PROVE  [r EXCEPT !.pc = pc, !.g = g, !.rows = rows] \in Request
  BY DEF Request, Pcs

LEMMA NodeRequest ==
  ASSUME NEW r \in Request, NEW pc \in Pcs, NEW n \in Nodes, NEW row \in NodeRow
  PROVE  [r EXCEPT !.pc = pc, !.n = n, !.rows[n] = row] \in Request
  <1>1. [r.rows EXCEPT ![n] = row] \in [Nodes -> NodeRow]
    BY DEF Request
  <1> QED
    BY <1>1 DEF Request, Pcs

(* One request moves, the others stay where they are.                      *)
LEMMA StepParts ==
  ASSUME MembershipTypeOK, NEW p \in Admins, NEW at, NEW to \in Pcs, Step(p, at, to)
  PROVE  /\ req[p].pc = at /\ req' \in [Admins -> Request] /\ req'[p].pc = to
         /\ \A o \in Admins : o # p => req'[o] = req[o]
         /\ to # "idle" => req'[p] = [req[p] EXCEPT !.pc = to]
  <1>1. req[p] \in Request /\ Idle \in Request /\ Idle.pc = "idle"
    BY IdleType DEF MembershipTypeOK, Idle
  <1> DEFINE r == IF to = "idle" THEN Idle ELSE [req[p] EXCEPT !.pc = to]
  <1>2. r \in Request
    BY <1>1, PcWrite
  <1>3. r.pc = to
    BY <1>1 DEF Request
  <1>4. req[p].pc = at /\ req' = [req EXCEPT ![p] = r]
    BY DEF Step
  <1> HIDE DEF r
  <1>5. req' \in [Admins -> Request] /\ req'[p] = r /\ \A o \in Admins : o # p => req'[o] = req[o]
    BY <1>2, <1>4 DEF MembershipTypeOK
  <1> QED
    BY <1>3, <1>4, <1>5 DEF r

LEMMA StartParts ==
  ASSUME MembershipTypeOK, NEW p \in Admins, NEW r \in Request, Start(p, r)
  PROVE  /\ req[p].pc = "idle" /\ req' \in [Admins -> Request] /\ req'[p] = r
         /\ \A o \in Admins : o # p => req'[o] = req[o]
  BY DEF MembershipTypeOK, Start

LEMMA MarkedType ==
  ASSUME MembershipTypeOK, NEW S
  PROVE  /\ Marked(S) \in [Nodes -> NodeRow]
         /\ \A n \in Nodes : /\ Marked(S)[n].exists = node[n].exists
                             /\ Marked(S)[n].active = node[n].active
                             /\ Marked(S)[n].status =
                                  IF n \in S /\ node[n].exists THEN "drifted"
                                  ELSE node[n].status
  BY DEF MembershipTypeOK, Marked, NodeRow

LEMMA LinkTypes ==
  ASSUME MembershipTypeOK
  PROVE  /\ \A u \in Users, S \in SUBSET Groups :
                /\ Replaced(userGroups, u, S) \subseteq Users \X Groups
                /\ RevokedBy(userGroups, u, S) \subseteq (Users \X Groups) \cup (Groups \X Nodes)
         /\ \A g \in Groups, N \in SUBSET Nodes :
                /\ Replaced(groupNodes, g, N) \subseteq Groups \X Nodes
                /\ RevokedBy(groupNodes, g, N) \subseteq (Users \X Groups) \cup (Groups \X Nodes)
  BY DEF MembershipTypeOK, Replaced, RevokedBy

LEMMA ReqParts ==
  ASSUME MembershipTypeOK, NEW p \in Admins
  PROVE  req[p] \in Request
  BY DEF MembershipTypeOK

LEMMA UserRowWrite ==
  ASSUME NEW row \in UserRow, NEW state \in {"none", "on", "off"}
  PROVE  [row EXCEPT !.state = state] \in UserRow
  BY DEF UserRow

UserStep(p) ==
    \/ \E u \in Users : \/ DeleteUser(p, u)
                        \/ \E S \in SUBSET Groups : CreateUser(p, u, S)
                        \/ \E next \in {"saveUser", "toggleUser"} : ReadUser(p, u, next)
    \/ \E S \in SUBSET Groups : RejectUser(p, S)
    \/ \E state \in {"on", "off"} : \/ EditUser(p, state)
                                    \/ \E S \in SUBSET Groups : RegroupUser(p, S, state)
    \/ ToggleUser(p) \/ MarkAllDrifted(p)

LEMMA UserStepType ==
  ASSUME MembershipTypeOK, NEW p \in Admins, UserStep(p)
  PROVE  MembershipTypeOK'
  <1> DEFINE r == req[p]
  <1>0. r \in Request /\ r.u \in Users /\ r.row \in UserRow /\ r.member \subseteq Groups
    BY ReqParts, RequestParts
  <1>1. ASSUME NEW u \in Users, DeleteUser(p, u) PROVE MembershipTypeOK'
    <2>1. [Idle EXCEPT !.pc = "markAll"] \in Request
      BY IdleType, PcWrite DEF Pcs
    <2>2. req' \in [Admins -> Request]
      BY <1>1, <2>1, StartParts DEF DeleteUser
    <2>3. user' \in [Users -> UserRow]
      BY <1>1 DEF DeleteUser, MembershipTypeOK, NoUser, UserRow
    <2> QED
      BY <1>1, <2>2, <2>3, LinkTypes DEF DeleteUser, MembershipTypeOK
  <1>2. ASSUME NEW u \in Users, NEW S \in SUBSET Groups, CreateUser(p, u, S)
        PROVE  MembershipTypeOK'
    <2>1. [Idle EXCEPT !.pc = "markAll"] \in Request
      BY IdleType, PcWrite DEF Pcs
    <2>2. req' \in [Admins -> Request]
      BY <1>2, <2>1, StartParts DEF CreateUser
    <2>3. user' \in [Users -> UserRow]
      BY <1>2 DEF CreateUser, MembershipTypeOK, UserRow
    <2> QED
      BY <1>2, <2>2, <2>3, LinkTypes DEF CreateUser, MembershipTypeOK
  <1>3. ASSUME NEW u \in Users, NEW next \in {"saveUser", "toggleUser"}, ReadUser(p, u, next)
        PROVE  MembershipTypeOK'
    <2>1. user[u] \in UserRow /\ MemberOf(u) \in SUBSET Groups /\ next \in Pcs
      BY DEF MembershipTypeOK, MemberOf, ExistingGroups, Pcs
    <2>2. [Idle EXCEPT !.pc = next, !.u = u, !.row = user[u], !.member = MemberOf(u)] \in Request
      BY <2>1, IdleType, UserRequest
    <2>3. req' \in [Admins -> Request]
      BY <1>3, <2>2, StartParts DEF ReadUser
    <2> QED
      BY <1>3, <2>3 DEF ReadUser, tables, history, MembershipTypeOK
  <1>4. ASSUME NEW S \in SUBSET Groups, RejectUser(p, S) PROVE MembershipTypeOK'
    <2>1. req' \in [Admins -> Request]
      BY <1>4, StepParts DEF RejectUser, Pcs
    <2> QED
      BY <1>4, <2>1 DEF RejectUser, tables, history, MembershipTypeOK
  <1>5. ASSUME NEW state \in {"on", "off"}, EditUser(p, state) PROVE MembershipTypeOK'
    <2>1. req' \in [Admins -> Request]
      BY <1>5, StepParts DEF EditUser, Pcs
    <2>2. user' \in [Users -> UserRow]
      BY <1>0, <1>5, UserRowWrite DEF EditUser, MembershipTypeOK
    <2>3. group' \in [Groups -> {"none", "there", "gone"}]
      BY <1>5 DEF EditUser, MembershipTypeOK
    <2>4. userGroups' \subseteq Users \X Groups
      BY <1>0, <1>5 DEF EditUser, MembershipTypeOK
    <2> QED
      BY <1>5, <2>1, <2>2, <2>3, <2>4 DEF EditUser, MembershipTypeOK
  <1>6. ASSUME NEW state \in {"on", "off"}, NEW S \in SUBSET Groups, RegroupUser(p, S, state)
        PROVE  MembershipTypeOK'
    <2>1. req' \in [Admins -> Request]
      BY <1>6, StepParts DEF RegroupUser, Pcs
    <2>2. user' \in [Users -> UserRow]
      BY <1>0, <1>6, UserRowWrite DEF RegroupUser, MembershipTypeOK
    <2>3. /\ userGroups' = Replaced(userGroups, r.u, S)
          /\ revoked' = RevokedBy(userGroups, r.u, S)
          /\ overtaken' = (overtaken \/ UserOvertaken(r))
          /\ UNCHANGED <<group, node, groupNodes, pushed, excused>>
      BY <1>6 DEF RegroupUser
    <2> QED
      BY <1>0, <2>1, <2>2, <2>3, LinkTypes DEF MembershipTypeOK
  <1>7. CASE ToggleUser(p)
    <2>1. req' \in [Admins -> Request]
      BY <1>7, StepParts DEF ToggleUser, Pcs
    <2>2. user' \in [Users -> UserRow]
      BY <1>0, <1>7 DEF ToggleUser, MembershipTypeOK, UserRow
    <2> QED
      BY <1>7, <2>1, <2>2 DEF ToggleUser, history, MembershipTypeOK
  <1>8. CASE MarkAllDrifted(p)
    <2>1. req' \in [Admins -> Request]
      BY <1>8, StepParts DEF MarkAllDrifted, Pcs
    <2>2. node' \in [Nodes -> NodeRow]
      BY <1>8, MarkedType DEF MarkAllDrifted
    <2> QED
      BY <1>8, <2>1, <2>2 DEF MarkAllDrifted, MembershipTypeOK
  <1> QED
    BY <1>1, <1>2, <1>3, <1>4, <1>5, <1>6, <1>7, <1>8 DEF UserStep

GroupStep(p) ==
    \/ \E g \in Groups : \/ ReadGroup(p, g)
                         \/ \E N \in SUBSET Nodes : CreateGroup(p, g, N)
    \/ \E naming \in BOOLEAN, N \in SUBSET Nodes : SaveGroup(p, naming, N)
    \/ ReplaceNodes(p) \/ MarkGroup(p)

RowsOf(g) == [n \in Nodes |-> IF n \in NodesOf(g) THEN node[n] ELSE NoNode]

LEMMA GroupStepType ==
  ASSUME MembershipTypeOK, NEW p \in Admins, GroupStep(p)
  PROVE  MembershipTypeOK'
  <1> DEFINE r == req[p]
  <1>0. r \in Request /\ r.g \in Groups /\ r.ids \subseteq Nodes /\ r.rows \in [Nodes -> NodeRow]
    BY ReqParts, RequestParts
  <1>1. ASSUME NEW g \in Groups, ReadGroup(p, g) PROVE MembershipTypeOK'
    <2>1. RowsOf(g) \in [Nodes -> NodeRow]
      BY NoNodeType DEF RowsOf, MembershipTypeOK
    <2>2. [Idle EXCEPT !.pc = "saveGroup", !.g = g, !.rows = RowsOf(g)] \in Request
      BY <2>1, IdleType, RowsRequest DEF Pcs
    <2>3. req' \in [Admins -> Request]
      BY <1>1, <2>2, StartParts DEF ReadGroup, RowsOf
    <2> QED
      BY <1>1, <2>3 DEF ReadGroup, tables, history, MembershipTypeOK
  <1>2. ASSUME NEW g \in Groups, NEW N \in SUBSET Nodes, CreateGroup(p, g, N)
        PROVE  MembershipTypeOK'
    <2> DEFINE new == IF N = {} THEN Idle
                      ELSE [Idle EXCEPT !.pc = "links", !.g = g, !.ids = N]
    <2>0. "links" \in Pcs
      BY DEF Pcs
    <2>1. new \in Request
      BY <2>0, IdleType, GroupRequest
    <2>2. Start(p, new)
      BY <1>2 DEF CreateGroup
    <2> HIDE DEF new
    <2>3. req' \in [Admins -> Request]
      BY <2>1, <2>2, StartParts
    <2> QED
      BY <1>2, <2>3 DEF CreateGroup, history, MembershipTypeOK
  <1>3. ASSUME NEW naming \in BOOLEAN, NEW N \in SUBSET Nodes, SaveGroup(p, naming, N)
        PROVE  MembershipTypeOK'
    <2> DEFINE next == IF naming THEN [r EXCEPT !.pc = "links", !.ids = N] ELSE Idle
    <2>1. next \in Request
      BY <1>0, IdleType, GroupRequest DEF Pcs
    <2>2. req' = [req EXCEPT ![p] = next]
      BY <1>3 DEF SaveGroup
    <2> HIDE DEF next
    <2>3. req' \in [Admins -> Request]
      BY <2>1, <2>2 DEF MembershipTypeOK
    <2>4. node' \in [Nodes -> NodeRow]
      BY <1>0, <1>3 DEF SaveGroup, MembershipTypeOK
    <2>5. groupNodes' \subseteq Groups \X Nodes
      BY <1>0, <1>3 DEF SaveGroup, NodesRead, MembershipTypeOK
    <2>6. overtaken' \in BOOLEAN /\ group' \in [Groups -> {"none", "there", "gone"}]
      BY <1>3 DEF SaveGroup, MembershipTypeOK
    <2>7. UNCHANGED <<user, userGroups, pushed, revoked, excused>>
      BY <1>3 DEF SaveGroup
    <2> QED
      BY <2>3, <2>4, <2>5, <2>6, <2>7 DEF MembershipTypeOK
  <1>4. CASE ReplaceNodes(p)
    <2>1. req' \in [Admins -> Request]
      BY <1>4, StepParts DEF ReplaceNodes, Pcs
    <2>2. r.ids \cap ExistingNodes \in SUBSET Nodes
      BY <1>0
    <2>3. /\ groupNodes' = Replaced(groupNodes, r.g, r.ids \cap ExistingNodes)
          /\ revoked' = RevokedBy(groupNodes, r.g, r.ids \cap ExistingNodes)
          /\ overtaken' \in BOOLEAN
          /\ UNCHANGED <<user, group, node, userGroups, pushed, excused>>
      BY <1>4 DEF ReplaceNodes, MembershipTypeOK
    <2> QED
      BY <1>0, <2>1, <2>2, <2>3, LinkTypes DEF MembershipTypeOK
  <1>5. CASE MarkGroup(p)
    <2>1. req' \in [Admins -> Request]
      BY <1>5, StepParts DEF MarkGroup, Pcs
    <2>2. node' \in [Nodes -> NodeRow]
      BY <1>5, MarkedType DEF MarkGroup
    <2> QED
      BY <1>5, <2>1, <2>2 DEF MarkGroup, history, MembershipTypeOK
  <1> QED
    BY <1>1, <1>2, <1>3, <1>4, <1>5 DEF GroupStep

NodeStep(p) ==
    \/ \E n \in Nodes, status \in {"synced", "drifted", "pending"} : ReadNode(p, n, status)
    \/ Unpinned(p) \/ SaveNode(p)

(* Requests that are one step.                                             *)
ShortStep ==
    \/ \E g \in Groups : DeleteGroup(g)
    \/ \E n \in Nodes : CreateNode(n) \/ DeleteNode(n) \/ ToggleNode(n) \/ PushNode(n)

LEMMA NodeStepType ==
  ASSUME MembershipTypeOK, NEW p \in Admins, NodeStep(p)
  PROVE  MembershipTypeOK'
  <1>0. req[p] \in Request /\ req[p].n \in Nodes /\ req[p].rows \in [Nodes -> NodeRow]
    BY ReqParts, RequestParts
  <1>1. ASSUME NEW n \in Nodes, NEW status \in {"synced", "drifted", "pending"},
               ReadNode(p, n, status)
        PROVE  MembershipTypeOK'
    <2> DEFINE pc == IF status = node[n].status THEN "saveNode" ELSE "unpin"
               row == [node[n] EXCEPT !.status = status]
               new == [Idle EXCEPT !.pc = pc, !.n = n, !.rows[n] = row]
    <2>1. row \in NodeRow /\ pc \in Pcs
      BY DEF MembershipTypeOK, NodeRow, Pcs
    <2>2. Start(p, new)
      BY <1>1 DEF ReadNode
    <2> HIDE DEF pc, row
    <2>3. new \in Request
      BY <2>1, IdleType, NodeRequest
    <2> HIDE DEF new
    <2>4. req' \in [Admins -> Request]
      BY <2>2, <2>3, StartParts
    <2> QED
      BY <1>1, <2>4 DEF ReadNode, tables, history, MembershipTypeOK
  <1>2. CASE Unpinned(p)
    <2>1. req' \in [Admins -> Request]
      BY <1>2, StepParts DEF Unpinned, Pcs
    <2> QED
      BY <1>2, <2>1 DEF Unpinned, tables, history, MembershipTypeOK
  <1>3. CASE SaveNode(p)
    <2>1. req' \in [Admins -> Request]
      BY <1>3, StepParts DEF SaveNode, Pcs
    <2>2. node' \in [Nodes -> NodeRow] /\ overtaken' \in BOOLEAN
      BY <1>0, <1>3 DEF SaveNode, MembershipTypeOK
    <2> QED
      BY <1>3, <2>1, <2>2 DEF SaveNode, MembershipTypeOK
  <1> QED
    BY <1>1, <1>2, <1>3 DEF NodeStep

LEMMA ShortStepType == MembershipTypeOK /\ ShortStep => MembershipTypeOK'
  <1> SUFFICES ASSUME MembershipTypeOK, ShortStep PROVE MembershipTypeOK'
    OBVIOUS
  <1> USE DEF MembershipTypeOK
  <1>1. ASSUME NEW g \in Groups, DeleteGroup(g) PROVE MembershipTypeOK'
    BY <1>1 DEF DeleteGroup
  <1>2. ASSUME NEW n \in Nodes, CreateNode(n) PROVE MembershipTypeOK'
    BY <1>2 DEF CreateNode, history, NodeRow
  <1>3. ASSUME NEW n \in Nodes, DeleteNode(n) PROVE MembershipTypeOK'
    BY <1>3, NoNodeType DEF DeleteNode
  <1>4. ASSUME NEW n \in Nodes, ToggleNode(n) PROVE MembershipTypeOK'
    BY <1>4 DEF ToggleNode, history, NodeRow
  <1>5. ASSUME NEW n \in Nodes, PushNode(n) PROVE MembershipTypeOK'
    <2>1. node' \in [Nodes -> NodeRow]
      BY <1>5 DEF PushNode, NodeRow
    <2>2. Wanted(n) \subseteq Users
      BY DEF Wanted
    <2> QED
      BY <1>5, <2>1, <2>2 DEF PushNode
  <1> QED
    BY <1>1, <1>2, <1>3, <1>4, <1>5 DEF ShortStep

LEMMA RestartType == MembershipTypeOK /\ RestartPanel => MembershipTypeOK'
  <1> SUFFICES ASSUME MembershipTypeOK, RestartPanel PROVE MembershipTypeOK'
    OBVIOUS
  <1>1. req' \in [Admins -> Request]
    BY IdleType DEF RestartPanel
  <1>2. Dangling \subseteq Nodes
    BY DEF Dangling
  <1>3. excused' \subseteq Nodes
    BY <1>2 DEF RestartPanel, MembershipTypeOK
  <1> QED
    BY <1>1, <1>3 DEF RestartPanel, MembershipTypeOK, ExistingUsers, ExistingGroups, ExistingNodes

LEMMA MembershipCases ==
  MembershipNext => \/ \E p \in Admins : UserStep(p) \/ GroupStep(p) \/ NodeStep(p)
                    \/ ShortStep \/ RestartPanel
  BY DEF MembershipNext, RequestStep, UserStep, GroupStep, NodeStep, ShortStep

LEMMA MembershipStepType ==
  MembershipTypeOK /\ [MembershipNext]_membershipVars => MembershipTypeOK'
  <1> SUFFICES ASSUME MembershipTypeOK, [MembershipNext]_membershipVars
               PROVE  MembershipTypeOK'
    OBVIOUS
  <1>1. CASE UNCHANGED membershipVars
    BY <1>1 DEF membershipVars, tables, history, MembershipTypeOK
  <1> QED
    BY <1>1, UserStepType, GroupStepType, NodeStepType, ShortStepType, RestartType,
       MembershipCases

-----------------------------------------------------------------------------
(* What a step of one request has to show.                                 *)

GroupsStay == \A g \in Groups : group[g] # "none" => group'[g] # "none"

LEMMA RequestsStayOK ==
  ASSUME MembershipInv, GroupsStay, NEW p \in Admins, RequestOK(req[p])',
         \A o \in Admins : o # p => req'[o] = req[o]
  PROVE  \A o \in Admins : RequestOK(req[o])'
  <1> SUFFICES ASSUME NEW o \in Admins, o # p PROVE RequestOK(req[o])'
    OBVIOUS
  <1>1. req[o].g \in Groups /\ RequestOK(req[o])
    BY ReqParts, RequestParts DEF MembershipInv, LinksHaveGroups
  <1> QED
    BY <1>1 DEF RequestOK, GroupsStay

LEMMA PendingStays ==
  ASSUME NEW p \in Admins, req[p].pc \notin {"markAll", "markGroup"},
         \A o \in Admins : o # p => req'[o] = req[o]
  PROVE  \A n \in Nodes : Pending(n) => Pending(n)'
  BY DEF Pending, NodesRead

LEMMA CurrentStays ==
  ASSUME MembershipInv, pushed' = pushed, overtaken => overtaken',
         \A n \in Nodes : Pending(n) => Pending(n)',
         ~overtaken' => \A n \in Nodes :
             Fresh(n)' => Pending(n)' \/ (Fresh(n) /\ Wanted(n)' = Wanted(n))
  PROVE  CurrentOrPending'
  BY DEF MembershipInv, CurrentOrPending

LEMMA QuietKeeps ==
  ASSUME MembershipInv, MembershipTypeOK', NEW p \in Admins,
         req[p].pc \notin {"markAll", "markGroup"}, RequestOK(req[p])',
         \A o \in Admins : o # p => req'[o] = req[o],
         UNCHANGED <<tables, pushed, history>>
  PROVE  MembershipInv'
  <1> USE DEF tables, history
  <1>1. LinksHaveGroups'
    BY RequestsStayOK DEF GroupsStay, MembershipInv, LinksHaveGroups
  <1>2. RevokedStaysRevoked'
    BY DEF MembershipInv, RevokedStaysRevoked, ExistingUsers, ExistingGroups
  <1>3. \A n \in Nodes : (Fresh(n)' <=> Fresh(n)) /\ Wanted(n)' = Wanted(n)
    BY DEF Fresh, Dangling, ExistingGroups, Wanted
  <1>4. CurrentOrPending'
    BY <1>3, PendingStays, CurrentStays
  <1> QED
    BY <1>1, <1>2, <1>4 DEF MembershipInv

(* Every node will be marked.                                              *)
LEMMA AllPending ==
  ASSUME NEW p \in Admins, req'[p].pc = "markAll"
  PROVE  CurrentOrPending' /\ RequestOK(req[p])'
  BY DEF CurrentOrPending, Pending, RequestOK

-----------------------------------------------------------------------------
(* Requests on users.                                                      *)

LEMMA IdleParts ==
  /\ Idle.pc = "idle"
  /\ \A pc : [Idle EXCEPT !.pc = pc].pc = pc
  BY DEF Idle

LEMMA CreateUserKeeps ==
  ASSUME MembershipInv, MembershipTypeOK', NEW p \in Admins, NEW u \in Users,
         NEW S \in SUBSET Groups, CreateUser(p, u, S)
  PROVE  MembershipInv'
  <1>1. /\ req'[p].pc = "markAll" /\ \A o \in Admins : o # p => req'[o] = req[o]
        /\ user[u].state = "none" /\ S \subseteq ExistingGroups
        /\ \A v \in Users : v # u => user'[v] = user[v]
        /\ userGroups' = Replaced(userGroups, u, S)
        /\ revoked' = RevokedBy(userGroups, u, S)
        /\ UNCHANGED <<group, node, groupNodes, pushed, excused, overtaken>>
    BY IdleParts DEF CreateUser, Start, MembershipInv, MembershipTypeOK
  <1>2. CurrentOrPending' /\ RequestOK(req[p])'
    BY <1>1, AllPending
  <1>3. LinksHaveGroups'
    BY <1>1, <1>2, RequestsStayOK
    DEF MembershipInv, GroupsStay, LinksHaveGroups, Replaced, ExistingGroups
  <1>4. RevokedStaysRevoked'
    BY <1>1, MembershipAssumption
    DEF MembershipInv, MembershipTypeOK, RevokedStaysRevoked, Replaced, RevokedBy,
        ExistingUsers, ExistingGroups
  <1> QED
    BY <1>2, <1>3, <1>4 DEF MembershipInv

LEMMA DeleteUserKeeps ==
  ASSUME MembershipInv, MembershipTypeOK', NEW p \in Admins, NEW u \in Users,
         DeleteUser(p, u)
  PROVE  MembershipInv'
  <1>1. /\ req'[p].pc = "markAll" /\ \A o \in Admins : o # p => req'[o] = req[o]
        /\ user'[u].state = "none"
        /\ \A v \in Users : v # u => user'[v] = user[v]
        /\ revoked' = RevokedBy(userGroups, u, {})
        /\ UNCHANGED <<group, node, userGroups, groupNodes, pushed, excused, overtaken>>
    BY IdleParts DEF DeleteUser, Start, NoUser, MembershipInv, MembershipTypeOK
  <1>2. CurrentOrPending' /\ RequestOK(req[p])'
    BY <1>1, AllPending
  <1>3. LinksHaveGroups'
    BY <1>1, <1>2, RequestsStayOK DEF MembershipInv, GroupsStay, LinksHaveGroups
  <1>4. RevokedStaysRevoked'
    BY <1>1, MembershipAssumption
    DEF MembershipInv, MembershipTypeOK, RevokedStaysRevoked, RevokedBy,
        ExistingUsers, ExistingGroups
  <1> QED
    BY <1>2, <1>3, <1>4 DEF MembershipInv

LEMMA ReadUserKeeps ==
  ASSUME MembershipInv, MembershipTypeOK', NEW p \in Admins, NEW u \in Users,
         NEW next \in {"saveUser", "toggleUser"}, ReadUser(p, u, next)
  PROVE  MembershipInv'
  <1> DEFINE r == [Idle EXCEPT !.pc = next, !.u = u, !.row = user[u],
                               !.member = MemberOf(u)]
  <1>1. /\ r.pc = next /\ r.row = user[u]
        /\ user[u].state # "none" /\ req[p].pc = "idle"
        /\ req' = [req EXCEPT ![p] = r]
        /\ UNCHANGED <<tables, pushed, history>>
    BY DEF ReadUser, Start, Idle, ExistingUsers
  <1> HIDE DEF r
  <1>2. req'[p] = r /\ \A o \in Admins : o # p => req'[o] = req[o]
    BY <1>1 DEF MembershipInv, MembershipTypeOK
  <1>3. RequestOK(req[p])'
    BY <1>1, <1>2 DEF RequestOK
  <1> QED
    BY <1>1, <1>2, <1>3, QuietKeeps

LEMMA RejectUserKeeps ==
  ASSUME MembershipInv, MembershipTypeOK', NEW p \in Admins, NEW S \in SUBSET Groups,
         RejectUser(p, S)
  PROVE  MembershipInv'
  <1>1. /\ req[p].pc = "saveUser" /\ req'[p].pc = "idle"
        /\ \A o \in Admins : o # p => req'[o] = req[o]
        /\ UNCHANGED <<tables, pushed, history>>
    BY StepParts DEF RejectUser, MembershipInv, Pcs
  <1> QED
    BY <1>1, QuietKeeps DEF RequestOK

(* A save that overtook nothing finds the user as it was read.             *)
LEMMA RegroupUserKeeps ==
  ASSUME MembershipInv, MembershipTypeOK', NEW p \in Admins, NEW S \in SUBSET Groups,
         NEW state \in {"on", "off"}, RegroupUser(p, S, state)
  PROVE  MembershipInv'
  <1> DEFINE r == req[p]
             u == r.u
             to == IF S # r.member \/ state # r.row.state THEN "markAll" ELSE "idle"
  <1>1. u \in Users /\ r.row \in UserRow /\ RequestOK(r)
    BY ReqParts, RequestParts DEF MembershipInv, LinksHaveGroups
  <1>2. /\ r.pc = "saveUser" /\ req'[p].pc = to
        /\ \A o \in Admins : o # p => req'[o] = req[o]
    <2>1. Step(p, "saveUser", to)
      BY DEF RegroupUser
    <2>2. to \in Pcs
      BY DEF Pcs
    <2> HIDE DEF to
    <2> QED
      BY <2>1, <2>2, StepParts DEF MembershipInv
  <1>3. /\ S \subseteq ExistingGroups
        /\ user'[u] = [r.row EXCEPT !.state = state]
        /\ \A v \in Users : v # u => user'[v] = user[v]
        /\ userGroups' = Replaced(userGroups, u, S)
        /\ revoked' = RevokedBy(userGroups, u, S)
        /\ overtaken' = (overtaken \/ user[u] # r.row \/ MemberOf(u) # r.member)
        /\ UNCHANGED <<group, node, groupNodes, pushed, excused>>
    BY <1>1 DEF RegroupUser, UserOvertaken, MembershipInv, MembershipTypeOK
  <1>4. RequestOK(req[p])'
    BY <1>2 DEF RequestOK
  <1>5. LinksHaveGroups'
    BY <1>3, <1>4, <1>2, RequestsStayOK
    DEF MembershipInv, GroupsStay, LinksHaveGroups, Replaced, ExistingGroups
  <1>6. RevokedStaysRevoked'
    <2> SUFFICES ASSUME ~overtaken' PROVE RevokedStaysRevoked'
      BY DEF RevokedStaysRevoked
    <2>1. user[u] = r.row /\ ~overtaken /\ user[u].state # "none"
      BY <1>1, <1>2, <1>3 DEF RequestOK
    <2>2. \A v \in Users : v \in ExistingUsers <=> v \in ExistingUsers'
      BY <1>1, <1>3, <2>1 DEF ExistingUsers, UserRow
    <2>3. \A v \in Users : user'[v].legacy = user[v].legacy
      BY <1>1, <1>3, <2>1 DEF UserRow
    <2> QED
      BY <1>3, <2>1, <2>2, <2>3, MembershipAssumption
      DEF MembershipInv, MembershipTypeOK, RevokedStaysRevoked, Replaced, RevokedBy,
          ExistingGroups
  <1>7. CurrentOrPending'
    <2>1. CASE to = "markAll"
      BY <2>1, <1>2, AllPending
    <2>2. CASE to = "idle"
      <3>1. S = r.member /\ state = r.row.state
        BY <2>2
      <3>2. \A n \in Nodes : Pending(n) => Pending(n)'
        BY <1>2, PendingStays
      <3>3. ASSUME ~overtaken', NEW n \in Nodes, Fresh(n)'
            PROVE  Fresh(n) /\ Wanted(n)' = Wanted(n)
        <4>1. user[u] = r.row /\ S = MemberOf(u)
          BY <3>1, <3>3, <1>3
        <4>2. \A v \in Users : user'[v].state = user[v].state
          BY <1>1, <1>3, <3>1, <4>1 DEF UserRow
        <4>3. Fresh(n)
          BY <1>3, <3>3 DEF Fresh, Dangling, ExistingGroups
        <4>4. \A g \in Groups : <<g, n>> \in groupNodes => g \in ExistingGroups
          BY <4>3 DEF Fresh, Dangling
        <4>5. \A g \in Groups, v \in Users : <<g, n>> \in groupNodes =>
                  (<<v, g>> \in userGroups <=> <<v, g>> \in userGroups')
          BY <1>3, <4>1, <4>4 DEF Replaced, MemberOf
        <4> QED
          BY <1>3, <4>2, <4>3, <4>5 DEF Wanted
      <3> QED
        BY <1>3, <3>2, <3>3, CurrentStays
    <2> QED
      BY <2>1, <2>2
  <1> QED
    BY <1>5, <1>6, <1>7 DEF MembershipInv

LEMMA EditUserKeeps ==
  ASSUME MembershipInv, MembershipTypeOK', NEW p \in Admins,
         NEW state \in {"on", "off"}, EditUser(p, state)
  PROVE  MembershipInv'
  <1> DEFINE r == req[p]
             u == r.u
             to == IF state # r.row.state THEN "markAll" ELSE "idle"
  <1>1. u \in Users /\ r.row \in UserRow /\ RequestOK(r) /\ r.member \subseteq Groups
    BY ReqParts, RequestParts DEF MembershipInv, LinksHaveGroups
  <1>2. /\ r.pc = "saveUser" /\ req'[p].pc = to
        /\ \A o \in Admins : o # p => req'[o] = req[o]
    <2>1. Step(p, "saveUser", to)
      BY DEF EditUser
    <2>2. to \in Pcs
      BY DEF Pcs
    <2> HIDE DEF to
    <2> QED
      BY <2>1, <2>2, StepParts DEF MembershipInv
  <1>3. /\ user'[u] = [r.row EXCEPT !.state = state]
        /\ \A v \in Users : v # u => user'[v] = user[v]
        /\ \A g \in Groups : group'[g] = IF g \in r.member THEN "there" ELSE group[g]
        /\ userGroups' = userGroups \cup ({u} \X r.member)
        /\ overtaken' = (overtaken \/ user[u] # r.row \/ MemberOf(u) # r.member)
        /\ UNCHANGED <<node, groupNodes, pushed, revoked, excused>>
    BY <1>1 DEF EditUser, UserOvertaken, MembershipInv, MembershipTypeOK
  <1>4. RequestOK(req[p])' /\ GroupsStay
    BY <1>2, <1>3 DEF RequestOK, GroupsStay
  <1>5. LinksHaveGroups'
    BY <1>1, <1>3, <1>4, <1>2, RequestsStayOK
    DEF MembershipInv, MembershipTypeOK, GroupsStay, LinksHaveGroups
  <1>6. ASSUME ~overtaken'
        PROVE  /\ user[u] = r.row /\ ~overtaken /\ user[u].state # "none"
               /\ userGroups' = userGroups
               /\ \A g \in Groups : group'[g] = group[g]
    <2>1. user[u] = r.row /\ MemberOf(u) = r.member /\ ~overtaken
      BY <1>3, <1>6
    <2>2. \A g \in r.member : <<u, g>> \in userGroups /\ group[g] = "there"
      BY <2>1 DEF MemberOf, ExistingGroups
    <2>3. {u} \X r.member \subseteq userGroups
      BY <2>2
    <2>4. userGroups \cup ({u} \X r.member) = userGroups
      BY <2>3
    <2>5. user[u].state # "none"
      BY <1>1, <1>2, <2>1 DEF RequestOK
    <2>6. \A g \in Groups : group'[g] = group[g]
      BY <1>3, <2>2
    <2> QED
      BY <1>3, <2>1, <2>4, <2>5, <2>6
  <1>7. RevokedStaysRevoked'
    <2> SUFFICES ASSUME ~overtaken' PROVE RevokedStaysRevoked'
      BY DEF RevokedStaysRevoked
    <2>1. \A v \in Users : /\ v \in ExistingUsers <=> v \in ExistingUsers'
                           /\ user'[v].legacy = user[v].legacy
      BY <1>1, <1>3, <1>6 DEF ExistingUsers, UserRow
    <2> QED
      BY <1>3, <1>6, <2>1
      DEF MembershipInv, MembershipTypeOK, RevokedStaysRevoked, ExistingGroups
  <1>8. CurrentOrPending'
    <2>1. CASE to = "markAll"
      BY <2>1, <1>2, AllPending
    <2>2. CASE to = "idle"
      <3>1. \A n \in Nodes : Pending(n) => Pending(n)'
        BY <1>2, PendingStays
      <3>2. ASSUME ~overtaken', NEW n \in Nodes, Fresh(n)'
            PROVE  Fresh(n) /\ Wanted(n)' = Wanted(n)
        <4>1. \A v \in Users : user'[v].state = user[v].state
          BY <1>1, <1>3, <1>6, <2>2, <3>2 DEF UserRow
        <4> QED
          BY <1>3, <1>6, <3>2, <4>1 DEF Fresh, Dangling, ExistingGroups, Wanted
      <3> QED
        BY <1>3, <3>1, <3>2, CurrentStays
    <2> QED
      BY <2>1, <2>2
  <1> QED
    BY <1>5, <1>7, <1>8 DEF MembershipInv

LEMMA ToggleUserKeeps ==
  ASSUME MembershipInv, MembershipTypeOK', NEW p \in Admins, ToggleUser(p)
  PROVE  MembershipInv'
  <1>1. /\ req'[p].pc = "markAll" /\ \A o \in Admins : o # p => req'[o] = req[o]
    BY StepParts DEF ToggleUser, MembershipInv, Pcs
  <1>2. /\ \A v \in Users : /\ v \in ExistingUsers <=> v \in ExistingUsers'
                            /\ user'[v].legacy = user[v].legacy
        /\ UNCHANGED <<group, node, userGroups, groupNodes, pushed, history>>
    <2>1. req[p].u \in Users
      BY ReqParts, RequestParts DEF MembershipInv
    <2> DEFINE u == req[p].u
               state == IF user[u].state = "none" THEN "none"
                        ELSE IF req[p].row.state = "on" THEN "off" ELSE "on"
    <2>2. user[u] \in UserRow /\ user' = [user EXCEPT ![u] = [user[u] EXCEPT !.state = state]]
      BY <2>1 DEF ToggleUser, MembershipInv, MembershipTypeOK
    <2>3. /\ user'[u].state = state /\ user'[u].legacy = user[u].legacy
          /\ \A v \in Users : v # u => user'[v] = user[v]
      BY <2>1, <2>2 DEF MembershipInv, MembershipTypeOK, UserRow
    <2>4. \A v \in Users : /\ v \in ExistingUsers <=> v \in ExistingUsers'
                           /\ user'[v].legacy = user[v].legacy
      BY <2>3 DEF ExistingUsers
    <2> QED
      BY <2>4 DEF ToggleUser
  <1>3. CurrentOrPending' /\ RequestOK(req[p])'
    BY <1>1, AllPending
  <1>4. LinksHaveGroups'
    BY <1>1, <1>2, <1>3, RequestsStayOK DEF MembershipInv, GroupsStay, LinksHaveGroups
  <1>5. RevokedStaysRevoked'
    BY <1>2 DEF history, MembershipInv, MembershipTypeOK, RevokedStaysRevoked, ExistingGroups
  <1> QED
    BY <1>3, <1>4, <1>5 DEF MembershipInv

(* A step that marks nodes, at most, and moves one request.                *)
LEMMA MarkKeepsLinks ==
  ASSUME MembershipInv, NEW p \in Admins, RequestOK(req[p])',
         \A o \in Admins : o # p => req'[o] = req[o],
         UNCHANGED <<user, group, userGroups, groupNodes, revoked>>,
         overtaken => overtaken'
  PROVE  LinksHaveGroups' /\ RevokedStaysRevoked'
  BY RequestsStayOK DEF GroupsStay, MembershipInv, LinksHaveGroups, RevokedStaysRevoked,
                        ExistingUsers, ExistingGroups

LEMMA MarkAllKeeps ==
  ASSUME MembershipInv, MembershipTypeOK', NEW p \in Admins, MarkAllDrifted(p)
  PROVE  MembershipInv'
  <1>1. /\ req'[p].pc = "idle" /\ \A o \in Admins : o # p => req'[o] = req[o]
        /\ node' = Marked(ActiveNodes) /\ excused' = excused \cup (Nodes \ ActiveNodes)
        /\ UNCHANGED <<user, group, userGroups, groupNodes, pushed, revoked, overtaken>>
    BY StepParts DEF MarkAllDrifted, MembershipInv, Pcs
  <1>2. RequestOK(req[p])'
    BY <1>1 DEF RequestOK
  <1>3. \A n \in Nodes : ~Fresh(n)'
    <2>1. ASSUME NEW n \in Nodes, n \in ActiveNodes PROVE node'[n].status = "drifted"
      BY <1>1, <2>1, MarkedType DEF ActiveNodes, ExistingNodes, MembershipInv
    <2> QED
      BY <1>1, <2>1 DEF Fresh
  <1> QED
    BY <1>1, <1>2, <1>3, MarkKeepsLinks DEF MembershipInv, CurrentOrPending

LEMMA UserStepKeeps ==
  ASSUME MembershipInv, NEW p \in Admins, UserStep(p)
  PROVE  MembershipInv'
  <1>1. MembershipTypeOK'
    BY UserStepType DEF MembershipInv
  <1> QED
    BY <1>1, CreateUserKeeps, DeleteUserKeeps, ReadUserKeeps, RejectUserKeeps,
       RegroupUserKeeps, EditUserKeeps, ToggleUserKeeps, MarkAllKeeps
    DEF UserStep

-----------------------------------------------------------------------------
(* Requests on groups.  Ids of deleted groups do not return.               *)

LEMMA ReadGroupKeeps ==
  ASSUME MembershipInv, MembershipTypeOK', NEW p \in Admins, NEW g \in Groups,
         ReadGroup(p, g)
  PROVE  MembershipInv'
  <1> DEFINE r == [Idle EXCEPT !.pc = "saveGroup", !.g = g, !.rows = RowsOf(g)]
  <1>1. r.g = g /\ r.pc = "saveGroup"
    BY DEF Idle
  <1>2. /\ req' = [req EXCEPT ![p] = r] /\ req[p].pc = "idle" /\ group[g] = "there"
        /\ UNCHANGED <<tables, pushed, history>>
    BY DEF ReadGroup, Start, RowsOf, ExistingGroups
  <1> HIDE DEF r
  <1>3. req'[p] = r /\ \A o \in Admins : o # p => req'[o] = req[o]
    BY <1>2 DEF MembershipInv, MembershipTypeOK
  <1>4. RequestOK(req[p])'
    BY <1>1, <1>2, <1>3 DEF RequestOK, tables
  <1> QED
    BY <1>2, <1>3, <1>4, QuietKeeps

LEMMA CreateGroupKeeps ==
  ASSUME MembershipInv, MembershipTypeOK', ~GroupIdsReturn, NEW p \in Admins,
         NEW g \in Groups, NEW N \in SUBSET Nodes, CreateGroup(p, g, N)
  PROVE  MembershipInv'
  <1> DEFINE r == IF N = {} THEN Idle
                  ELSE [Idle EXCEPT !.pc = "links", !.g = g, !.ids = N]
  <1>1. r.pc = "idle" \/ (r.pc = "links" /\ r.g = g)
    BY DEF Idle
  <1>2. /\ req' = [req EXCEPT ![p] = r] /\ req[p].pc = "idle" /\ group[g] = "none"
        /\ group' = [group EXCEPT ![g] = "there"]
        /\ UNCHANGED <<user, node, userGroups, groupNodes, pushed, history>>
    BY DEF CreateGroup, Start
  <1> HIDE DEF r
  <1>3. /\ req'[p] = r /\ \A o \in Admins : o # p => req'[o] = req[o]
        /\ group'[g] = "there" /\ \A h \in Groups : h # g => group'[h] = group[h]
    BY <1>2 DEF MembershipInv, MembershipTypeOK
  <1>4. RequestOK(req[p])' /\ GroupsStay
    BY <1>1, <1>3 DEF RequestOK, GroupsStay
  <1>5. LinksHaveGroups'
    BY <1>2, <1>3, <1>4, RequestsStayOK
    DEF MembershipInv, MembershipTypeOK, GroupsStay, LinksHaveGroups
  <1>6. /\ \A l \in userGroups : l[2] # g
        /\ \A l \in groupNodes : l[1] # g
    BY <1>2 DEF MembershipInv, LinksHaveGroups
  <1>7. RevokedStaysRevoked'
    BY <1>2, <1>3, <1>6
    DEF history, MembershipInv, MembershipTypeOK, RevokedStaysRevoked,
        ExistingUsers, ExistingGroups
  <1>8. \A n \in Nodes : (Fresh(n)' => Fresh(n)) /\ Wanted(n)' = Wanted(n)
    <2>1. \A n \in Nodes : n \in Dangling' <=> n \in Dangling
      BY <1>2, <1>3, <1>6 DEF Dangling, ExistingGroups
    <2> QED
      BY <1>2, <2>1 DEF history, Fresh, Wanted
  <1>9. CurrentOrPending'
    BY <1>2, <1>3, <1>8, PendingStays, CurrentStays DEF history
  <1> QED
    BY <1>5, <1>7, <1>9 DEF MembershipInv

(* A save that overtook nothing changes nothing.                           *)
LEMMA SaveGroupKeeps ==
  ASSUME MembershipInv, MembershipTypeOK', NEW p \in Admins, NEW naming \in BOOLEAN,
         NEW N \in SUBSET Nodes, SaveGroup(p, naming, N)
  PROVE  MembershipInv'
  <1> DEFINE r == req[p]
             next == IF naming THEN [r EXCEPT !.pc = "links", !.ids = N] ELSE Idle
  <1>1. /\ r \in Request /\ r.g \in Groups
        /\ req' = [req EXCEPT ![p] = next] /\ r.pc = "saveGroup"
    BY ReqParts, RequestParts DEF SaveGroup, MembershipInv
  <1>2. next.pc = "idle" \/ (next.pc = "links" /\ next.g = r.g)
    BY <1>1 DEF Idle, Request
  <1> HIDE DEF next
  <1>3. /\ req'[p] = next /\ \A o \in Admins : o # p => req'[o] = req[o]
    BY <1>1 DEF MembershipInv, MembershipTypeOK
  <1>4. /\ group'[r.g] = "there" /\ \A h \in Groups : h # r.g => group'[h] = group[h]
        /\ node' = [n \in Nodes |-> IF n \in NodesRead(r) /\ ~node[n].exists
                                    THEN r.rows[n] ELSE node[n]]
        /\ groupNodes' = groupNodes \cup ({r.g} \X NodesRead(r))
        /\ overtaken' = (overtaken \/ r.g \notin ExistingGroups
                                   \/ NodesOf(r.g) # NodesRead(r))
        /\ UNCHANGED <<user, userGroups, pushed, revoked, excused>>
    BY <1>1 DEF SaveGroup, MembershipInv, MembershipTypeOK
  <1>5. RequestOK(req[p])' /\ GroupsStay
    BY <1>2, <1>3, <1>4 DEF RequestOK, GroupsStay
  <1>6. LinksHaveGroups'
    BY <1>1, <1>3, <1>4, <1>5, RequestsStayOK
    DEF MembershipInv, MembershipTypeOK, GroupsStay, LinksHaveGroups
  <1>7. ASSUME ~overtaken'
        PROVE  /\ ~overtaken /\ groupNodes' = groupNodes
               /\ \A g \in Groups : group'[g] = group[g]
               /\ \A n \in Nodes : node'[n] = node[n]
    <2>1. ~overtaken /\ group[r.g] = "there" /\ NodesRead(r) = NodesOf(r.g)
      BY <1>4, <1>7 DEF ExistingGroups
    <2>2. \A n \in NodesRead(r) : node[n].exists /\ <<r.g, n>> \in groupNodes
      BY <2>1 DEF NodesOf, ExistingNodes
    <2>3. {r.g} \X NodesRead(r) \subseteq groupNodes
      BY <2>2
    <2>4. groupNodes' = groupNodes
      BY <1>4, <2>3
    <2> QED
      BY <1>4, <2>1, <2>2, <2>4
  <1>8. RevokedStaysRevoked'
    BY <1>4, <1>7 DEF MembershipInv, MembershipTypeOK, RevokedStaysRevoked,
                      ExistingUsers, ExistingGroups
  <1>9. CurrentOrPending'
    <2>1. \A n \in Nodes : Pending(n) => Pending(n)'
      BY <1>1, <1>3, PendingStays
    <2>2. ASSUME ~overtaken', NEW n \in Nodes, Fresh(n)'
          PROVE  Fresh(n) /\ Wanted(n)' = Wanted(n)
      BY <1>4, <1>7, <2>2 DEF Fresh, Dangling, ExistingGroups, Wanted
    <2> QED
      BY <1>4, <2>1, <2>2, CurrentStays
  <1> QED
    BY <1>6, <1>8, <1>9 DEF MembershipInv

(* A node the group gains or loses is among those it is about to mark.     *)
LEMMA ReplaceNodesKeeps ==
  ASSUME MembershipInv, MembershipTypeOK', NEW p \in Admins, ReplaceNodes(p)
  PROVE  MembershipInv'
  <1> DEFINE r == req[p]
             g == r.g
             found == r.ids \cap ExistingNodes
  <1>1. r \in Request /\ g \in Groups
    BY ReqParts, RequestParts DEF MembershipInv
  <1>2. /\ r.pc = "links" /\ req'[p] = [r EXCEPT !.pc = "markGroup"]
        /\ \A o \in Admins : o # p => req'[o] = req[o]
    BY StepParts DEF ReplaceNodes, MembershipInv, Pcs
  <1>3. /\ req'[p].pc = "markGroup" /\ req'[p].ids = r.ids
        /\ NodesRead(req'[p]) = NodesRead(r)
    BY <1>1, <1>2 DEF Request, NodesRead
  <1>4. /\ groupNodes' = Replaced(groupNodes, g, found)
        /\ revoked' = RevokedBy(groupNodes, g, found)
        /\ overtaken' = (overtaken \/ ~(NodesOf(g) \subseteq NodesRead(r) \cup r.ids))
        /\ UNCHANGED <<user, group, node, userGroups, pushed, excused>>
    BY DEF ReplaceNodes
  <1>5. RequestOK(req[p])' /\ GroupsStay
    BY <1>3, <1>4 DEF RequestOK, GroupsStay
  <1>6. group[g] # "none"
    BY <1>2 DEF MembershipInv, LinksHaveGroups, RequestOK
  <1>7. LinksHaveGroups'
    BY <1>2, <1>4, <1>5, <1>6, RequestsStayOK
    DEF MembershipInv, LinksHaveGroups, Replaced
  <1>8. RevokedStaysRevoked'
    BY <1>1, <1>4, MembershipAssumption
    DEF MembershipInv, MembershipTypeOK, RevokedStaysRevoked, Replaced, RevokedBy,
        ExistingUsers, ExistingGroups
  <1>9. CurrentOrPending'
    <2>1. \A n \in Nodes : Pending(n) => Pending(n)'
      BY <1>2, PendingStays
    <2>2. ASSUME ~overtaken', NEW n \in Nodes, Fresh(n)', ~Pending(n)'
          PROVE  Fresh(n) /\ Wanted(n)' = Wanted(n)
      <3>1. n \notin NodesRead(r) \cup r.ids
        <4>1. n \in NodesRead(r) \cup r.ids => n \in (NodesRead(req[p]) \cup req[p].ids)'
          BY <1>3 DEF NodesRead
        <4> QED
          BY <1>3, <2>2, <4>1 DEF Pending
      <3>2. <<g, n>> \notin groupNodes
        BY <1>4, <2>2, <3>1 DEF Fresh, NodesOf, ExistingNodes
      <3>3. \A h \in Groups : <<h, n>> \in groupNodes' <=> <<h, n>> \in groupNodes
        BY <1>4, <3>1, <3>2 DEF Replaced
      <3> QED
        BY <1>4, <2>2, <3>3 DEF Fresh, Dangling, ExistingGroups, Wanted
    <2> QED
      BY <1>4, <2>1, <2>2, CurrentStays
  <1> QED
    BY <1>7, <1>8, <1>9 DEF MembershipInv

LEMMA MarkGroupKeeps ==
  ASSUME MembershipInv, MembershipTypeOK', NEW p \in Admins, MarkGroup(p)
  PROVE  MembershipInv'
  <1> DEFINE S == NodesRead(req[p]) \cup req[p].ids
  <1>1. /\ req[p].pc = "markGroup" /\ req'[p].pc = "idle"
        /\ \A o \in Admins : o # p => req'[o] = req[o]
        /\ node' = Marked(S)
        /\ UNCHANGED <<user, group, userGroups, groupNodes, pushed, history>>
    BY StepParts DEF MarkGroup, MembershipInv, Pcs
  <1>2. RequestOK(req[p])'
    BY <1>1 DEF RequestOK
  <1>3. LinksHaveGroups' /\ RevokedStaysRevoked'
    BY <1>1, <1>2, MarkKeepsLinks DEF history
  <1>4. \A n \in Nodes : Fresh(n)' => n \notin S /\ Fresh(n) /\ Wanted(n)' = Wanted(n)
    BY <1>1, MarkedType DEF MembershipInv, history, Fresh, Dangling, ExistingGroups, Wanted
  <1>5. ASSUME NEW n \in Nodes, n \notin S, Pending(n) PROVE Pending(n)'
    <2>1. PICK o \in Admins :
              \/ req[o].pc = "markAll"
              \/ req[o].pc = "markGroup" /\ n \in NodesRead(req[o]) \cup req[o].ids
      BY <1>5 DEF Pending
    <2>2. o # p
      BY <1>1, <1>5, <2>1
    <2> QED
      BY <1>1, <2>1, <2>2 DEF Pending, NodesRead
  <1>6. CurrentOrPending'
    BY <1>1, <1>4, <1>5 DEF history, MembershipInv, CurrentOrPending
  <1> QED
    BY <1>3, <1>6 DEF MembershipInv

LEMMA GroupStepKeeps ==
  ASSUME MembershipInv, ~GroupIdsReturn, NEW p \in Admins, GroupStep(p)
  PROVE  MembershipInv'
  <1>1. MembershipTypeOK'
    BY GroupStepType DEF MembershipInv
  <1> QED
    BY <1>1, ReadGroupKeeps, CreateGroupKeeps, SaveGroupKeeps, ReplaceNodesKeeps,
       MarkGroupKeeps DEF GroupStep

-----------------------------------------------------------------------------
(* Requests on nodes, and the requests that are one step.                  *)

LEMMA ReadNodeKeeps ==
  ASSUME MembershipInv, MembershipTypeOK', NEW p \in Admins, NEW n \in Nodes,
         NEW status \in {"synced", "drifted", "pending"}, ReadNode(p, n, status)
  PROVE  MembershipInv'
  <1> DEFINE pc == IF status = node[n].status THEN "saveNode" ELSE "unpin"
             r == [Idle EXCEPT !.pc = pc, !.n = n,
                               !.rows[n] = [node[n] EXCEPT !.status = status]]
  <1>1. r.pc \in {"saveNode", "unpin"}
    BY DEF Idle
  <1>2. /\ req' = [req EXCEPT ![p] = r] /\ req[p].pc = "idle"
        /\ UNCHANGED <<tables, pushed, history>>
    BY DEF ReadNode, Start
  <1> HIDE DEF r
  <1>3. req'[p] = r /\ \A o \in Admins : o # p => req'[o] = req[o]
    BY <1>2 DEF MembershipInv, MembershipTypeOK
  <1>4. RequestOK(req[p])'
    BY <1>1, <1>3 DEF RequestOK
  <1> QED
    BY <1>2, <1>3, <1>4, QuietKeeps

LEMMA UnpinnedKeeps ==
  ASSUME MembershipInv, MembershipTypeOK', NEW p \in Admins, Unpinned(p)
  PROVE  MembershipInv'
  <1>1. /\ req[p].pc = "unpin" /\ req'[p].pc = "saveNode"
        /\ \A o \in Admins : o # p => req'[o] = req[o]
        /\ UNCHANGED <<tables, pushed, history>>
    BY StepParts DEF Unpinned, MembershipInv, Pcs
  <1> QED
    BY <1>1, QuietKeeps DEF RequestOK

(* A save that overtook nothing undoes no mark.                            *)
LEMMA SaveNodeKeeps ==
  ASSUME MembershipInv, MembershipTypeOK', NEW p \in Admins, SaveNode(p)
  PROVE  MembershipInv'
  <1> DEFINE r == req[p]
             row == r.rows[r.n]
  <1>1. r.n \in Nodes
    BY ReqParts, RequestParts DEF MembershipInv
  <1>2. /\ r.pc = "saveNode" /\ req'[p].pc = "idle"
        /\ \A o \in Admins : o # p => req'[o] = req[o]
    BY StepParts DEF SaveNode, MembershipInv, Pcs
  <1>3. /\ node'[r.n] = row /\ \A n \in Nodes : n # r.n => node'[n] = node[n]
        /\ overtaken' = (\/ overtaken \/ ~node[r.n].exists
                         \/ row.active # node[r.n].active
                         \/ (row.status = "synced" /\ node[r.n].status # "synced"))
        /\ UNCHANGED <<user, group, userGroups, groupNodes, pushed, revoked, excused>>
    BY <1>1 DEF SaveNode, MembershipInv, MembershipTypeOK
  <1>4. LinksHaveGroups' /\ RevokedStaysRevoked'
    BY <1>2, <1>3, MarkKeepsLinks DEF RequestOK
  <1>5. \A n \in Nodes : Pending(n) => Pending(n)'
    BY <1>2, PendingStays
  <1>6. ASSUME ~overtaken', NEW n \in Nodes, Fresh(n)'
        PROVE  Fresh(n) /\ Wanted(n)' = Wanted(n)
    BY <1>3, <1>6 DEF Fresh, Dangling, ExistingGroups, Wanted
  <1>7. CurrentOrPending'
    BY <1>3, <1>5, <1>6, CurrentStays
  <1> QED
    BY <1>4, <1>7 DEF MembershipInv

LEMMA NodeStepKeeps ==
  ASSUME MembershipInv, NEW p \in Admins, NodeStep(p)
  PROVE  MembershipInv'
  <1>1. MembershipTypeOK'
    BY NodeStepType DEF MembershipInv
  <1> QED
    BY <1>1, ReadNodeKeeps, UnpinnedKeeps, SaveNodeKeeps DEF NodeStep

(* A step that moves no request.                                           *)
LEMMA IdleStepKeeps ==
  ASSUME MembershipInv, MembershipTypeOK', UNCHANGED <<req, overtaken>>,
         \A g \in Groups : group[g] # "none" => group'[g] # "none",
         userGroups' \subseteq userGroups, groupNodes' \subseteq groupNodes,
         RevokedStaysRevoked',
         \A n \in Nodes : Fresh(n)' =>
             \/ pushed'[n] = Wanted(n)'
             \/ Fresh(n) /\ Wanted(n)' = Wanted(n) /\ pushed'[n] = pushed[n]
  PROVE  MembershipInv'
  <1>1. \A p \in Admins : req[p].g \in Groups /\ RequestOK(req[p])
    BY ReqParts, RequestParts DEF MembershipInv, LinksHaveGroups
  <1>2. \A p \in Admins : RequestOK(req[p])'
    BY <1>1 DEF RequestOK
  <1>3. /\ \A l \in userGroups : l[2] \in Groups
        /\ \A l \in groupNodes : l[1] \in Groups
    BY DEF MembershipInv, MembershipTypeOK
  <1>4. LinksHaveGroups'
    BY <1>2, <1>3 DEF MembershipInv, LinksHaveGroups
  <1>5. \A n \in Nodes : Pending(n) => Pending(n)'
    BY DEF Pending, NodesRead
  <1>6. CurrentOrPending'
    BY <1>5 DEF MembershipInv, CurrentOrPending
  <1> QED
    BY <1>4, <1>6 DEF MembershipInv

LEMMA ShortStepKeeps ==
  ASSUME MembershipInv, ShortStep
  PROVE  MembershipInv'
  <1>0. MembershipTypeOK' /\ MembershipTypeOK /\ RevokedStaysRevoked
    BY ShortStepType DEF MembershipInv
  <1>1. ASSUME NEW g \in Groups, DeleteGroup(g) PROVE MembershipInv'
    <2>1. /\ group'[g] = "gone" /\ \A h \in Groups : h # g => group'[h] = group[h]
          /\ revoked' = revoked \cup {l \in userGroups : l[2] = g}
                                \cup {l \in groupNodes : l[1] = g}
          /\ UNCHANGED <<user, node, userGroups, groupNodes, pushed, req, excused, overtaken>>
      BY <1>0, <1>1 DEF DeleteGroup, MembershipTypeOK
    <2>2. RevokedStaysRevoked'
      BY <1>0, <2>1, MembershipAssumption
      DEF MembershipTypeOK, RevokedStaysRevoked, ExistingUsers, ExistingGroups
    <2>3. ASSUME NEW n \in Nodes, Fresh(n)'
          PROVE  Fresh(n) /\ Wanted(n)' = Wanted(n) /\ pushed'[n] = pushed[n]
      BY <2>1, <2>3 DEF Fresh, Dangling, ExistingGroups, Wanted
    <2> QED
      BY <1>0, <2>1, <2>2, <2>3, IdleStepKeeps
  <1>2. ASSUME NEW n \in Nodes, CreateNode(n) PROVE MembershipInv'
    <2>1. /\ node'[n].status = "pending" /\ \A m \in Nodes : m # n => node'[m] = node[m]
          /\ UNCHANGED <<user, group, userGroups, groupNodes, pushed, req,
                         revoked, excused, overtaken>>
      BY <1>0, <1>2 DEF CreateNode, MembershipTypeOK, history
    <2>2. RevokedStaysRevoked'
      BY <1>0, <2>1 DEF RevokedStaysRevoked, ExistingUsers, ExistingGroups
    <2>3. ASSUME NEW m \in Nodes, Fresh(m)'
          PROVE  Fresh(m) /\ Wanted(m)' = Wanted(m) /\ pushed'[m] = pushed[m]
      BY <2>1, <2>3 DEF Fresh, Dangling, ExistingGroups, Wanted
    <2> QED
      BY <1>0, <2>1, <2>2, <2>3, IdleStepKeeps
  <1>3. ASSUME NEW n \in Nodes, DeleteNode(n) PROVE MembershipInv'
    <2>1. /\ node'[n] = NoNode /\ \A m \in Nodes : m # n => node'[m] = node[m]
          /\ groupNodes' = {l \in groupNodes : l[2] # n}
          /\ revoked' = revoked \cup {l \in groupNodes : l[2] = n}
          /\ UNCHANGED <<user, group, userGroups, pushed, req, excused, overtaken>>
      BY <1>0, <1>3 DEF DeleteNode, MembershipTypeOK
    <2>2. RevokedStaysRevoked'
      BY <1>0, <2>1, MembershipAssumption
      DEF MembershipTypeOK, RevokedStaysRevoked, ExistingUsers, ExistingGroups
    <2>3. ASSUME NEW m \in Nodes, Fresh(m)'
          PROVE  Fresh(m) /\ Wanted(m)' = Wanted(m) /\ pushed'[m] = pushed[m]
      BY <2>1, <2>3 DEF Fresh, NoNode, Dangling, ExistingGroups, Wanted
    <2> QED
      BY <1>0, <2>1, <2>2, <2>3, IdleStepKeeps
  <1>4. ASSUME NEW n \in Nodes, ToggleNode(n) PROVE MembershipInv'
    <2>1. /\ \A m \in Nodes : /\ node'[m].exists = node[m].exists
                              /\ node'[m].status = node[m].status
          /\ UNCHANGED <<user, group, userGroups, groupNodes, pushed, req,
                         revoked, excused, overtaken>>
      BY <1>0, <1>4 DEF ToggleNode, MembershipTypeOK, NodeRow, history
    <2>2. RevokedStaysRevoked'
      BY <1>0, <2>1 DEF RevokedStaysRevoked, ExistingUsers, ExistingGroups
    <2>3. ASSUME NEW m \in Nodes, Fresh(m)'
          PROVE  Fresh(m) /\ Wanted(m)' = Wanted(m) /\ pushed'[m] = pushed[m]
      BY <2>1, <2>3 DEF Fresh, Dangling, ExistingGroups, Wanted
    <2> QED
      BY <1>0, <2>1, <2>2, <2>3, IdleStepKeeps
  <1>5. ASSUME NEW n \in Nodes, PushNode(n) PROVE MembershipInv'
    <2>1. /\ \A m \in Nodes : m # n => node'[m] = node[m] /\ pushed'[m] = pushed[m]
          /\ pushed'[n] = Wanted(n) /\ excused' = excused \ {n}
          /\ UNCHANGED <<user, group, userGroups, groupNodes, req, revoked, overtaken>>
      BY <1>0, <1>5 DEF PushNode, MembershipTypeOK
    <2>2. RevokedStaysRevoked'
      BY <1>0, <2>1 DEF RevokedStaysRevoked, ExistingUsers, ExistingGroups
    <2>3. \A m \in Nodes : Wanted(m)' = Wanted(m)
      BY <2>1 DEF Wanted
    <2>4. ASSUME NEW m \in Nodes, m # n, Fresh(m)' PROVE Fresh(m)
      BY <2>1, <2>4 DEF Fresh, Dangling, ExistingGroups
    <2> QED
      BY <1>0, <2>1, <2>2, <2>3, <2>4, IdleStepKeeps
  <1> QED
    BY <1>1, <1>2, <1>3, <1>4, <1>5 DEF ShortStep

-----------------------------------------------------------------------------
(* A start of the panel.                                                   *)

LEMMA RestartKeeps ==
  ASSUME MembershipInv, RestartPanel
  PROVE  MembershipInv'
  <1>0. MembershipTypeOK' /\ MembershipTypeOK /\ RevokedStaysRevoked
    BY RestartType DEF MembershipInv
  <1>1. /\ \A p \in Admins : req'[p].pc = "idle"
        /\ userGroups' = (userGroups \cup LegacyLinks) \cap (ExistingUsers \X ExistingGroups)
        /\ groupNodes' = groupNodes \cap (ExistingGroups \X ExistingNodes)
        /\ UNCHANGED <<user, group, node, pushed, revoked, overtaken>>
    BY DEF RestartPanel, Idle
  <1>2. LinksHaveGroups'
    BY <1>1 DEF LinksHaveGroups, RequestOK, ExistingGroups
  <1>3. RevokedStaysRevoked'
    BY <1>0, <1>1
    DEF MembershipTypeOK, RevokedStaysRevoked, ExistingUsers, ExistingGroups, LegacyLinks
  <1>4. ASSUME ~overtaken', NEW n \in Nodes, Fresh(n)' PROVE pushed'[n] = Wanted(n)'
    <2>1. \A p \in Admins : req[p].pc \notin {"markAll", "markGroup"}
      BY <1>4 DEF RestartPanel, Fresh
    <2>2. excused' = excused \cup Dangling \cup {m \in Nodes : Wanted(m)' # Wanted(m)}
      BY <2>1 DEF RestartPanel
    <2>3. n \notin excused \cup Dangling /\ Wanted(n)' = Wanted(n)
      BY <1>4, <2>2 DEF Fresh
    <2>4. Fresh(n) /\ ~Pending(n)
      BY <1>1, <1>4, <2>1, <2>3 DEF Fresh, Pending
    <2> QED
      BY <1>1, <1>4, <2>3, <2>4 DEF MembershipInv, CurrentOrPending
  <1> QED
    BY <1>0, <1>2, <1>3, <1>4 DEF MembershipInv, CurrentOrPending

-----------------------------------------------------------------------------
(* The specification.                                                      *)

LEMMA MembershipInitInv == MembershipInit => MembershipInv
  <1> SUFFICES ASSUME MembershipInit PROVE MembershipInv
    OBVIOUS
  <1> USE DEF MembershipInit
  <1>1. user \in [Users -> UserRow]
    BY DEF UserRow, ExistingGroups
  <1>2. node \in [Nodes -> NodeRow] /\ req \in [Admins -> Request]
    BY IdleType DEF NodeRow
  <1>3. /\ group \in [Groups -> {"none", "there", "gone"}]
        /\ userGroups \subseteq Users \X Groups /\ groupNodes \subseteq Groups \X Nodes
        /\ pushed \in [Nodes -> SUBSET Users]
    BY DEF ExistingUsers, ExistingGroups, Wanted
  <1>4. MembershipTypeOK
    BY <1>1, <1>2, <1>3 DEF MembershipTypeOK
  <1>5. LinksHaveGroups
    BY IdleParts DEF LinksHaveGroups, RequestOK, ExistingGroups
  <1> QED
    BY <1>4, <1>5 DEF MembershipInv, RevokedStaysRevoked, CurrentOrPending, Fresh

LEMMA MembershipStepInv ==
  ASSUME ~GroupIdsReturn
  PROVE  MembershipInv /\ [MembershipNext]_membershipVars => MembershipInv'
  <1> SUFFICES ASSUME MembershipInv, [MembershipNext]_membershipVars
               PROVE  MembershipInv'
    OBVIOUS
  <1>1. CASE UNCHANGED membershipVars
    BY <1>1 DEF membershipVars, tables, history, MembershipInv, MembershipTypeOK,
       LinksHaveGroups, RequestOK, RevokedStaysRevoked, CurrentOrPending, Fresh, Pending,
       NodesRead, Dangling, Wanted, ExistingUsers, ExistingGroups
  <1> QED
    BY <1>1, MembershipCases, UserStepKeeps, GroupStepKeeps, NodeStepKeeps,
       ShortStepKeeps, RestartKeeps

LEMMA InvMeansCurrent == MembershipInv => SyncedMeansCurrent
  BY DEF MembershipInv, CurrentOrPending, SyncedMeansCurrent, NobodyWillMark, Pending,
         Fresh, ActiveNodes, ExistingNodes

(* Requests, in any number and order, keep every table and history         *)
(* variable to its domain.                                                 *)
THEOREM MembershipTypes == MembershipSpec => []MembershipTypeOK
  <1>1. MembershipInit => MembershipTypeOK
    BY MembershipInitInv DEF MembershipInv
  <1> QED
    BY <1>1, MembershipStepType, PTL DEF MembershipSpec

(* As long as no new group gets the id of a deleted one: a node that shows *)
(* synced was pushed with exactly the users it should have, except where   *)
(* the code marks nothing.                                                 *)
THEOREM SyncedNodesAreCurrent ==
  ASSUME ~GroupIdsReturn
  PROVE  MembershipSpec => []SyncedMeansCurrent
  <1>1. MembershipSpec => []MembershipInv
    BY MembershipInitInv, MembershipStepInv, PTL DEF MembershipSpec
  <1> QED
    BY <1>1, InvMeansCurrent, PTL

(* As long as no new group gets the id of a deleted one: access that was   *)
(* taken away stays away until a request gives it again.                   *)
THEOREM AccessStaysRevoked ==
  ASSUME ~GroupIdsReturn
  PROVE  MembershipSpec => []RevokedStaysRevoked
  <1>1. MembershipSpec => []MembershipInv
    BY MembershipInitInv, MembershipStepInv, PTL DEF MembershipSpec
  <1>2. MembershipInv => RevokedStaysRevoked
    BY DEF MembershipInv
  <1> QED
    BY <1>1, <1>2, PTL

-----------------------------------------------------------------------------
(***************************************************************************)
(* The panel: its steps are steps of the parts.                            *)
(***************************************************************************)

(* Steps of requests on the tables.                                        *)
TableStep == /\ \/ \E p \in Admins : UserStep(p) \/ GroupStep(p)
                \/ \E p \in Admins, n \in Nodes, status \in {"synced", "drifted", "pending"} :
                       ReadNode(p, n, status)
                \/ \E p \in Admins : SaveNode(p)
                \/ ShortStep
             /\ OnTables

LEMMA UserRequestsAreSteps ==
  ASSUME NEW p \in Admins, UserRequests(p)
  PROVE  UserStep(p) /\ OnTables
  BY DEF UserRequests, UserStep

LEMMA GroupRequestsAreSteps ==
  ASSUME NEW p \in Admins, GroupRequests(p)
  PROVE  GroupStep(p) /\ OnTables
  BY DEF GroupRequests, GroupStep

LEMMA ShortRequestsAreSteps == ShortRequests => ShortStep /\ OnTables
  BY DEF ShortRequests, ShortStep

LEMMA PanelCases ==
  PanelNext => \/ TableStep \/ Connections \/ Backups \/ RestartAll
               \/ \E p \in Admins : Unpin(p) \/ FinishUnpin(p) \/ SkipUnpin(p)
  BY UserRequestsAreSteps, GroupRequestsAreSteps, ShortRequestsAreSteps
  DEF PanelNext, NodeRequests, TableStep

-----------------------------------------------------------------------------
(* The tables.                                                             *)

LEMMA TableStepIsMembership == TableStep => MembershipNext
  BY DEF TableStep, MembershipNext, RequestStep, UserStep, GroupStep, ShortStep

LEMMA PanelStepsTables == [PanelNext]_panelVars => [MembershipNext]_membershipVars
  <1> SUFFICES ASSUME [PanelNext]_panelVars PROVE [MembershipNext]_membershipVars
    OBVIOUS
  <1>1. CASE UNCHANGED panelVars
    BY <1>1 DEF panelVars
  <1>2. CASE TableStep
    BY <1>2, TableStepIsMembership
  <1>3. CASE Connections
    BY <1>3 DEF Connections, OnHosts
  <1>4. CASE Backups
    BY <1>4 DEF Backups, OnFiles
  <1>5. CASE RestartAll
    BY <1>5 DEF RestartAll, MembershipNext
  <1>6. ASSUME NEW p \in Admins, Unpin(p) PROVE [MembershipNext]_membershipVars
    BY <1>6 DEF Unpin, OnHosts
  <1>7. ASSUME NEW p \in Admins, FinishUnpin(p) \/ SkipUnpin(p)
        PROVE  [MembershipNext]_membershipVars
    <2>1. Unpinned(p)
      BY <1>7 DEF FinishUnpin, SkipUnpin
    <2> QED
      BY <2>1 DEF MembershipNext, RequestStep
  <1> QED
    BY <1>1, <1>2, <1>3, <1>4, <1>5, <1>6, <1>7, PanelCases

LEMMA PanelIsMembership == PanelSpec => MembershipSpec
  BY PanelStepsTables, PTL DEF PanelSpec, PanelInit, MembershipSpec

-----------------------------------------------------------------------------
(* The known hosts.  Requests remove addresses of nodes only.              *)

LEMMA UnpinningType ==
  ASSUME MembershipTypeOK, NEW p \in Admins
  PROVE  Unpinning(req[p]) \in Addrs
  BY ReqParts, RequestParts, PanelAssumption DEF Unpinning

LEMMA PanelStepsHosts ==
  MembershipTypeOK /\ [PanelNext]_panelVars => [HostsNext]_hostsVars
  <1> SUFFICES ASSUME MembershipTypeOK, [PanelNext]_panelVars PROVE [HostsNext]_hostsVars
    OBVIOUS
  <1> USE PanelAssumption
  <1>1. CASE UNCHANGED panelVars
    BY <1>1 DEF panelVars
  <1>2. CASE TableStep
    BY <1>2 DEF TableStep, OnTables
  <1>3. CASE Connections
    BY <1>3 DEF Connections, HostsNext
  <1>4. CASE Backups
    BY <1>4 DEF Backups, OnFiles
  <1>5. CASE RestartAll
    BY <1>5 DEF RestartAll, HostsNext
  <1>6. ASSUME NEW p \in Admins, Unpin(p) PROVE [HostsNext]_hostsVars
    BY <1>6, UnpinningType DEF Unpin, HostsNext
  <1>7. ASSUME NEW p \in Admins, FinishUnpin(p) PROVE [HostsNext]_hostsVars
    BY <1>7 DEF FinishUnpin, HostsNext
  <1>8. ASSUME NEW p \in Admins, SkipUnpin(p) PROVE [HostsNext]_hostsVars
    BY <1>8 DEF SkipUnpin
  <1> QED
    BY <1>1, <1>2, <1>3, <1>4, <1>5, <1>6, <1>7, <1>8, PanelCases

LEMMA PanelIsHosts == PanelSpec => HostsSpec
  <1>1. PanelSpec => []MembershipTypeOK
    BY PanelIsMembership, MembershipTypes, PTL
  <1> QED
    BY <1>1, PanelStepsHosts, PTL DEF PanelSpec, PanelInit, HostsSpec

-----------------------------------------------------------------------------
(* The backups.                                                            *)

LEMMA PanelStepsBackups == [PanelNext]_panelVars => [BackupNext]_backupVars
  <1> SUFFICES ASSUME [PanelNext]_panelVars PROVE [BackupNext]_backupVars
    OBVIOUS
  <1>1. CASE UNCHANGED panelVars
    BY <1>1 DEF panelVars
  <1>2. CASE TableStep
    BY <1>2 DEF TableStep, OnTables
  <1>3. CASE Connections
    BY <1>3 DEF Connections, OnHosts
  <1>4. CASE Backups
    BY <1>4 DEF Backups, BackupNext
  <1>5. CASE RestartAll
    BY <1>5 DEF RestartAll, BackupNext
  <1>6. ASSUME NEW p \in Admins, Unpin(p) \/ FinishUnpin(p) \/ SkipUnpin(p)
        PROVE  [BackupNext]_backupVars
    BY <1>6 DEF Unpin, FinishUnpin, SkipUnpin, OnHosts
  <1> QED
    BY <1>1, <1>2, <1>3, <1>4, <1>5, <1>6, PanelCases

LEMMA PanelIsBackup == PanelSpec => BackupSpec
  BY PanelStepsBackups, PTL DEF PanelSpec, PanelInit, BackupSpec

-----------------------------------------------------------------------------
(* What the runs check, for the whole panel.                               *)

(* Every step of the panel is a step of its tables, of its known_hosts     *)
(* file and of its backups, or leaves them alone: the panel implements the *)
(* three specifications at once.                                           *)
THEOREM PanelImplementsItsParts == PanelSpec => MembershipSpec /\ HostsSpec /\ BackupSpec
  BY PanelIsMembership, PanelIsHosts, PanelIsBackup, PTL

(* user.go, group.go, node.go: on the panel a node that shows synced was   *)
(* pushed with the users it should have, except where the code marks no    *)
(* node, whatever connections and backups do meanwhile.                    *)
THEOREM PanelSyncedMeansCurrent ==
  ASSUME ~GroupIdsReturn
  PROVE  PanelSpec => []SyncedMeansCurrent
  BY PanelIsMembership, SyncedNodesAreCurrent, PTL

(* On the panel access that was taken away stays away until a request      *)
(* gives it again.                                                         *)
THEOREM PanelRevokedStaysRevoked ==
  ASSUME ~GroupIdsReturn
  PROVE  PanelSpec => []RevokedStaysRevoked
  BY PanelIsMembership, AccessStaysRevoked, PTL

(* client.go:318-330: on the panel a connection opens to a host recorded   *)
(* before with a key recorded for it, whatever requests remove.            *)
THEOREM PanelTrustedKeyHolds == PanelSpec => []TrustedKeyHolds
  BY PanelIsHosts, KnownKeysHold, PTL

(* node.go:110-122, install.go:382-391: on the panel an address removed    *)
(* since its machine changed holds no older key.                           *)
THEOREM PanelCleanedMeansClean == PanelSpec => []CleanedMeansClean
  BY PanelIsHosts, RemovedKeysAreGone, PTL

(* backup.go: on the panel a reported backup stays for the retention.      *)
THEOREM PanelReportedBackupsStay == PanelSpec => []ReportedBackupsStay
  BY PanelIsBackup, BackupsStay, PTL

(* backup.go:213-220: on the panel the clean-up leaves a backup.           *)
THEOREM PanelRetentionLeavesOne == PanelSpec => []RetentionLeavesOne
  BY PanelIsBackup, OneBackupIsLeft, PTL
=============================================================================
