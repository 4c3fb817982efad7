---------------------------- MODULE Notebook_proofs ----------------------------
(***************************************************************************)
(* Proofs about the three parts that face the notebook: Dak, which looks   *)
(* for the editor and its extension, Extras, which changes what is in the  *)
(* shell, and SparkSqlCell, which runs a cell.  They share nothing.        *)
(*                                                                         *)
(* Dak: the invariant says what the call would answer if it read all that  *)
(* is left to read from the disk as it is now (Ahead).  A read does not    *)
(* change that; an operation of the editor does, but what the call answers *)
(* then was true before it or is true after it, because no file is read    *)
(* twice.                                                                  *)
(*                                                                         *)
(* Extras: the invariant says where what is in the shell comes from: a     *)
(* magic the user did not register is one the extras remember having       *)
(* added, and so is a name they injected; and they remember nothing while  *)
(* they are switched off.                                                  *)
(*                                                                         *)
(* SparkSqlCell: the invariant says that what is bound is what the text's  *)
(* statements give, how much of it has run at each step, and that Spark    *)
(* parsed it in turn.  Lemmas say what the operators on texts return: a    *)
(* statement is a part of the text, every stretch of code is in one, a     *)
(* scan of options ends in the line, and a reading (Gather) puts together  *)
(* what its tokens give; so formatting undoes escaping, but for the        *)
(* references, and the statements mean what the text means.  Inductions    *)
(* are spelled out, from the end of the text (Backwards), because the      *)
(* library's theorem takes an operator.                                    *)
(***************************************************************************)
EXTENDS Dak, Extras, SparkSqlCell, FiniteSetTheorems, FunctionTheorems,
        SequenceTheorems, WellFoundedInduction, TLAPS

(***************************************************************************)
(* Dak                                                                     *)
(***************************************************************************)

\* The steps of a call, and those that read the files of a profile.
Pc == {"idle", "default", "obsolete0", "trust", "profile", "list", "obsolete",
       "workspace", "enabled", "disabled", "global", "done"}

Deep == {"profile", "list", "obsolete", "workspace", "enabled", "disabled", "global"}

\* Type correctness; between calls only what detect_ide() found is kept.
TypeOK ==
    /\ kernel \in Setups /\ disk \in Disk /\ pc \in Pc
    /\ info \in {NoInfo, Detect(kernel)}
    /\ entry \in 0..2 /\ listed \in {"yes", "no", "unreadable"} /\ profile \in Profile
    /\ state \in {"unknown", "enabled", "disabled", "not-installed"} /\ link \in BOOLEAN
    /\ writes \in 0..MaxWrites /\ blurred \subseteq {"update", "missed", "elsewhere"}
    /\ seen \subseteq {"enabled", "disabled", "not-installed"} /\ hadList \in BOOLEAN

\* Where a call is says what detect_ide() has found.
Course ==
    /\ pc = "idle" => listed = "unreadable" /\ state = "unknown" /\ ~link /\ writes = 0
                      /\ blurred = {}
    /\ pc \notin {"idle", "done"} => info = Detect(kernel) /\ ~link
    /\ pc \in Deep => HasDirs /\ ~info.server /\ ~kernel.dak

\* An entry that names a folder which is not obsolete was seen in a list.
Saw ==
    /\ pc # "idle" /\ InSomeList(disk) => hadList
    /\ pc \in {"obsolete0", "obsolete"} /\ entry # 0 /\ entry \notin disk.obsolete => hadList
    /\ "missed" \notin blurred =>
          /\ pc # "idle" /\ listed = "yes" => hadList
          /\ pc \in {"workspace", "enabled", "disabled", "global"} => hadList
          /\ pc = "done" /\ link /\ listed # "unreadable" => hadList

\* DAK is enabled for the notebook's folder, as far as the workspace's lists and
\* that of the profile p say.
On(d, p) == d.ws = "on" \/ (d.ws = "none" /\ ~d.off[StateProfile(d, p)])

Enablement(on) == IF on THEN "enabled" ELSE "disabled"

\* What a profile with this entry makes of the rest.
Judged(d, e, p) ==
    IF e = 0 \/ e \in d.obsolete THEN "not-installed"
    ELSE Enablement("disable" \notin Started /\ On(d, p))

\* What the call answers if it reads what is left to read from d.
Ahead(d) ==
    CASE pc = "list" -> Judged(d, d.list[ExtProfile(d, profile)], profile)
      [] pc = "obsolete" -> Judged(d, entry, profile)
      [] pc \in {"workspace", "enabled"} -> Enablement(On(d, profile))
      [] pc = "disabled" -> Enablement(d.ws # "off" /\ ~d.off[StateProfile(d, profile)])
      [] pc = "global" -> Enablement(~d.off[StateProfile(d, profile)])
      [] pc = "done" -> state
      [] OTHER -> Truth(d)

\* The calls AnswerWasTrue speaks of, where it holds.
Telling == FlagsRead /\ info.family /\ kernel.notebook /\ ~kernel.dak /\ ~info.server
           /\ blurred \cap {"missed", "elsewhere"} = {}

\* Before the editor writes, everything that was read is still so.
Current ==
    writes = 0 /\ Telling =>
        /\ pc \notin {"idle", "done"} => Truth(disk) \in seen
        /\ pc \in {"list", "obsolete", "workspace", "enabled", "disabled", "global"} =>
              profile = Chosen(disk)
        /\ pc \in {"obsolete", "workspace", "enabled", "disabled", "global"} =>
              entry = disk.list[ExtProfile(disk, profile)]
        /\ pc \in {"workspace", "enabled", "disabled", "global"} =>
              entry # 0 /\ entry \notin disk.obsolete /\ "disable" \notin Started
        /\ pc = "disabled" => disk.ws # "on"
        /\ pc = "global" => disk.ws = "none"

\* What the call is about to answer was true, or an update looks like a removal.
Justified ==
    pc # "idle" /\ Telling /\ writes <= 1 =>
        Ahead(disk) \in seen \cup {"unknown"}
        \/ ("update" \in blurred /\ Ahead(disk) = "not-installed")

\* The inductive invariant.
IInv == TypeOK /\ Course /\ Saw /\ Current /\ Justified

-----------------------------------------------------------------------------

\* Every initial state satisfies the inductive invariant.
LEMMA InitIInv == Init => IInv
<1> SUFFICES ASSUME Init PROVE IInv
  OBVIOUS
<1> USE DEF Init
<1>1. disk \in Disk
  BY DEF Disk, Profile
<1>2. TypeOK
  <2>1. MaxWrites \in Nat /\ 0 \in 0..MaxWrites
    BY DakAssumption
  <2>2. info \in {NoInfo, Detect(kernel)} /\ pc \in Pc /\ writes \in 0..MaxWrites
    BY <2>1 DEF Pc
  <2>3. /\ listed \in {"yes", "no", "unreadable"} /\ profile \in Profile
        /\ state \in {"unknown", "enabled", "disabled", "not-installed"} /\ entry \in 0..2
    BY DEF Profile
  <2> QED
    BY <1>1, <2>2, <2>3 DEF TypeOK
<1>3. Course
  BY DEF Course, Deep
<1>4. Saw
  BY DEF Saw
<1>5. Current /\ Justified
  BY DEF Current, Justified
<1> QED
  BY <1>2, <1>3, <1>4, <1>5 DEF IInv

-----------------------------------------------------------------------------

\* What an operation of the editor during a call changes on the disk.
Changes ==
    \/ \E v \in {"none", "on", "off"} : disk' = [disk EXCEPT !.ws = v]
    \/ \E p \in Profile : disk' = [disk EXCEPT !.off[p] = ~disk.off[p]]
    \/ \E p \in Profile : disk' = [disk EXCEPT !.assoc = p]
    \/ \E p \in Profile, v \in 0..2 : /\ disk' = [disk EXCEPT !.list[p] = v]
                                      /\ v = 0 \/ v \notin disk.obsolete
    \/ \E p \in Profile : /\ disk' = [disk EXCEPT !.obsolete = @ \cup {disk.list[p]}]
                          /\ disk.list[p] # 0

\* What an update of the extension changes on the disk.
NewFolder == \E p \in Profile :
    /\ disk.list[p] # 0 /\ disk.obsolete = {}
    /\ disk' = [disk EXCEPT !.list = [q \in Profile |->
                    IF disk.list[q] = 0 THEN 0 ELSE 3 - disk.list[p]],
                            !.obsolete = {disk.list[p]}]

\* An update during a call.
Updated == NewFolder /\ blurred' = blurred \cup {"update"} /\ UNCHANGED <<seen, hadList>>

\* An operation of the editor is written down unless no call is in progress.
LEMMA EditorCases ==
    ASSUME TypeOK, Editor
    PROVE  /\ UNCHANGED <<kernel, pc, ide>>
           /\ \/ pc = "idle" /\ UNCHANGED history /\ (Changes \/ NewFolder \/ disk' \in Disk)
              \/ /\ pc # "idle" /\ pc # "done" /\ writes < MaxWrites /\ writes' = writes + 1
                 /\ \/ Updated
                    \/ /\ Changes
                       /\ seen' = seen \cup {Truth(disk')} /\ UNCHANGED blurred
                       /\ hadList' = (hadList \/ InSomeList(disk'))
<1>1. ASSUME NEW d, Write(d)
      PROVE  /\ UNCHANGED <<kernel, pc, ide>> /\ disk' = d
             /\ \/ pc = "idle" /\ UNCHANGED history
                \/ /\ pc # "idle" /\ pc # "done" /\ writes < MaxWrites /\ writes' = writes + 1
                   /\ seen' = seen \cup {Truth(disk')} /\ UNCHANGED blurred
                   /\ hadList' = (hadList \/ InSomeList(disk'))
  BY <1>1 DEF Write, MayWrite
<1> DEFINE Recorded ==
             /\ UNCHANGED <<kernel, pc, ide>>
             /\ \/ pc = "idle" /\ UNCHANGED history /\ (Changes \/ NewFolder \/ disk' \in Disk)
                \/ /\ pc # "idle" /\ pc # "done" /\ writes < MaxWrites /\ writes' = writes + 1
                   /\ \/ Updated
                      \/ /\ Changes
                         /\ seen' = seen \cup {Truth(disk')} /\ UNCHANGED blurred
                         /\ hadList' = (hadList \/ InSomeList(disk'))
<1>2. ASSUME NEW d, Write(d), disk' = d => Changes PROVE Recorded
  BY <1>1, <1>2
<1>3. CASE ChangeEnablement
  <2>1. CASE \E v \in {"none", "on", "off"} : Write([disk EXCEPT !.ws = v])
    BY <1>2, <2>1 DEF Changes
  <2>2. CASE \E p \in Profile : Write([disk EXCEPT !.off[p] = ~disk.off[p]])
    BY <1>2, <2>2 DEF Changes
  <2>3. CASE \E p \in Profile : Write([disk EXCEPT !.assoc = p])
    BY <1>2, <2>3 DEF Changes
  <2> QED
    BY <1>3, <2>1, <2>2, <2>3 DEF ChangeEnablement
<1>4. CASE Cleanup
  <2> DEFINE list == [p \in Profile |->
                        IF disk.list[p] \in disk.obsolete THEN 0 ELSE disk.list[p]]
             obs == {}
  <2>1. list \in [Profile -> 0..2] /\ obs \in SUBSET {1, 2}
    BY DEF TypeOK, Disk
  <2>2. Write([disk EXCEPT !.obsolete = obs, !.list = list]) /\ pc = "idle"
    BY <1>4 DEF Cleanup
  <2> HIDE DEF list, obs
  <2>3. disk' = [disk EXCEPT !.obsolete = obs, !.list = list]
    BY <2>2, <1>1
  <2>4. disk' \in Disk
    BY <2>1, <2>3 DEF TypeOK, Disk
  <2> QED
    BY <1>1, <2>2, <2>4
<1>5. ASSUME NEW p \in Profile, Install(p) PROVE Recorded
  <2>1. PICK v \in {1, 2} \ disk.obsolete : Write([disk EXCEPT !.list[p] = v])
    BY <1>5 DEF Install
  <2>2. v \in 0..2 /\ v \notin disk.obsolete
    BY <2>1
  <2> QED
    BY <1>2, <2>1, <2>2 DEF Changes
<1>6. ASSUME NEW p \in Profile, Uninstall(p) PROVE Recorded
  <2>1. CASE Write([disk EXCEPT !.list[p] = 0])
    <3>1. 0 \in 0..2
      OBVIOUS
    <3> QED
      BY <1>2, <2>1, <3>1 DEF Changes
  <2>2. CASE Write([disk EXCEPT !.obsolete = @ \cup {disk.list[p]}])
    BY <1>2, <1>6, <2>2 DEF Changes, Uninstall
  <2> QED
    BY <1>6, <2>1, <2>2 DEF Uninstall
<1>7. ASSUME NEW p \in Profile, Update(p) PROVE Recorded
  <2>1. /\ disk.list[p] # 0 /\ disk.obsolete = {}
        /\ disk' = [disk EXCEPT !.list = [q \in Profile |->
                        IF disk.list[q] = 0 THEN 0 ELSE 3 - disk.list[p]],
                                !.obsolete = {disk.list[p]}]
        /\ UNCHANGED <<kernel, pc, ide>>
        /\ \/ pc = "idle" /\ UNCHANGED history
           \/ /\ pc # "idle" /\ pc # "done" /\ writes < MaxWrites /\ writes' = writes + 1
              /\ blurred' = blurred \cup {"update"} /\ UNCHANGED <<seen, hadList>>
    BY <1>7 DEF Update, MayWrite
  <2> QED
    BY <2>1 DEF Updated, NewFolder
<1> QED
  BY <1>3, <1>4, <1>5, <1>6, <1>7 DEF Editor

\* What an update changes on the disk.
LEMMA UpdatedFields ==
    ASSUME disk \in Disk, NewFolder
    PROVE  /\ disk' \in Disk
           /\ disk'.shareExt = disk.shareExt /\ disk'.shareState = disk.shareState
           /\ disk.obsolete \subseteq disk'.obsolete
           /\ disk'.ws = disk.ws /\ disk'.off = disk.off
           /\ disk'.assoc = disk.assoc /\ disk.obsolete = {}
           /\ \E p \in Profile :
                 /\ disk.list[p] # 0 /\ disk'.obsolete = {disk.list[p]}
                 /\ disk'.list = [q \in Profile |->
                        IF disk.list[q] = 0 THEN 0 ELSE 3 - disk.list[p]]
<1> USE DEF Disk
<1>1. PICK p \in Profile :
         /\ disk.list[p] # 0 /\ disk.obsolete = {}
         /\ disk' = [disk EXCEPT !.list = [q \in Profile |->
                         IF disk.list[q] = 0 THEN 0 ELSE 3 - disk.list[p]],
                                 !.obsolete = {disk.list[p]}]
  BY DEF NewFolder
<1> DEFINE obs == {disk.list[p]}
           list == [q \in Profile |-> IF disk.list[q] = 0 THEN 0 ELSE 3 - disk.list[p]]
<1>2. disk.list[p] \in {1, 2}
  BY <1>1
<1>3. obs \in SUBSET {1, 2}
  BY <1>2
<1>4. list \in [Profile -> 0..2]
  BY <1>2
<1>5. disk' = [disk EXCEPT !.list = list, !.obsolete = obs]
  BY <1>1
<1>6. disk' \in Disk /\ disk'.list = list /\ disk'.obsolete = obs
  <2> HIDE DEF list, obs
  <2> QED
    BY <1>3, <1>4, <1>5
<1>7. /\ disk'.shareExt = disk.shareExt /\ disk'.shareState = disk.shareState
      /\ disk'.ws = disk.ws /\ disk'.off = disk.off /\ disk'.assoc = disk.assoc
  <2> HIDE DEF list, obs
  <2> QED
    BY <1>5
<1>8. disk.obsolete \subseteq disk'.obsolete
  BY <1>1
<1> QED
  BY <1>1, <1>6, <1>7, <1>8

\* The fields an operation leaves and the ones it changes; the disk keeps its type.
LEMMA DiskFields ==
    ASSUME disk \in Disk, Changes
    PROVE  /\ disk' \in Disk
           /\ disk'.shareExt = disk.shareExt /\ disk'.shareState = disk.shareState
           /\ disk.obsolete \subseteq disk'.obsolete
           /\ \/ /\ disk'.ws # disk.ws
                 /\ disk'.list = disk.list /\ disk'.obsolete = disk.obsolete
                 /\ disk'.assoc = disk.assoc /\ disk'.off = disk.off
              \/ /\ disk'.ws = disk.ws
                 /\ disk'.list = disk.list /\ disk'.obsolete = disk.obsolete
                 /\ disk'.assoc = disk.assoc
              \/ /\ disk'.ws = disk.ws /\ disk'.off = disk.off
                 /\ disk'.list = disk.list /\ disk'.obsolete = disk.obsolete
              \/ /\ disk'.ws = disk.ws /\ disk'.off = disk.off
                 /\ disk'.assoc = disk.assoc /\ disk'.obsolete = disk.obsolete
              \/ /\ disk'.ws = disk.ws /\ disk'.off = disk.off
                 /\ disk'.assoc = disk.assoc /\ disk'.list = disk.list
<1> USE DEF Disk
<1>1. CASE \E v \in {"none", "on", "off"} : disk' = [disk EXCEPT !.ws = v]
  BY <1>1
<1>2. CASE \E p \in Profile : disk' = [disk EXCEPT !.off[p] = ~disk.off[p]]
  <2>1. PICK p \in Profile : disk' = [disk EXCEPT !.off[p] = ~disk.off[p]]
    BY <1>2
  <2> DEFINE off == [disk.off EXCEPT ![p] = ~disk.off[p]]
  <2>2. off \in [Profile -> BOOLEAN]
    OBVIOUS
  <2>3. disk' = [disk EXCEPT !.off = off]
    BY <2>1
  <2> HIDE DEF off
  <2> QED
    BY <2>2, <2>3
<1>3. CASE \E p \in Profile : disk' = [disk EXCEPT !.assoc = p]
  BY <1>3
<1>4. CASE \E p \in Profile, v \in 0..2 : /\ disk' = [disk EXCEPT !.list[p] = v]
                                          /\ v = 0 \/ v \notin disk.obsolete
  <2>1. PICK p \in Profile, v \in 0..2 : disk' = [disk EXCEPT !.list[p] = v]
    BY <1>4
  <2> DEFINE list == [disk.list EXCEPT ![p] = v]
  <2>2. list \in [Profile -> 0..2]
    OBVIOUS
  <2>3. disk' = [disk EXCEPT !.list = list]
    BY <2>1
  <2> HIDE DEF list
  <2> QED
    BY <2>2, <2>3
<1>5. CASE \E p \in Profile : /\ disk' = [disk EXCEPT !.obsolete = @ \cup {disk.list[p]}]
                              /\ disk.list[p] # 0
  <2>1. PICK p \in Profile : /\ disk' = [disk EXCEPT !.obsolete = @ \cup {disk.list[p]}]
                             /\ disk.list[p] # 0
    BY <1>5
  <2> DEFINE obs == disk.obsolete \cup {disk.list[p]}
  <2>2. disk.list[p] \in {1, 2}
    BY <2>1
  <2>3. obs \in SUBSET {1, 2} /\ disk.obsolete \subseteq obs
    BY <2>2
  <2>4. disk' = [disk EXCEPT !.obsolete = obs]
    BY <2>1
  <2> HIDE DEF obs
  <2> QED
    BY <2>3, <2>4
<1> QED
  BY <1>1, <1>2, <1>3, <1>4, <1>5 DEF Changes

\* What the editor itself makes of its files, by the entry of the profile in use.
LEMMA TruthIsJudged ==
    ASSUME NEW d
    PROVE  Truth(d) = Judged(d, d.list[ExtProfile(d, Chosen(d))], Chosen(d))
BY DEF Truth, Judged, InProfile, On, Enablement

\* The editor's operations during a call keep the types and where the call is.
LEMMA EditorTypes ==
    ASSUME TypeOK, Course, Editor, pc # "idle"
    PROVE  TypeOK' /\ Course'
<1>1. UNCHANGED <<kernel, pc, ide>> /\ writes' \in 0..MaxWrites
      /\ (Updated \/ Changes)
      /\ blurred' \subseteq {"update", "missed", "elsewhere"}
      /\ seen' \subseteq {"enabled", "disabled", "not-installed"} /\ hadList' \in BOOLEAN
  <2>1. UNCHANGED <<kernel, pc, ide>> /\ writes < MaxWrites /\ writes' = writes + 1
        /\ \/ Updated
           \/ /\ Changes
              /\ seen' = seen \cup {Truth(disk')} /\ UNCHANGED blurred
              /\ hadList' = (hadList \/ InSomeList(disk'))
    BY EditorCases
  <2>2. writes' \in 0..MaxWrites
    BY <2>1, DakAssumption DEF TypeOK
  <2>3. Truth(disk') \in {"enabled", "disabled", "not-installed"}
    BY DEF Truth
  <2>4. CASE Updated
    BY <2>1, <2>2, <2>4 DEF Updated, TypeOK
  <2>5. CASE ~Updated
    <3>1. InSomeList(disk') \in BOOLEAN
      BY DEF InSomeList
    <3> QED
      BY <2>1, <2>2, <2>3, <2>5, <3>1 DEF TypeOK
  <2> QED
    BY <2>4, <2>5
<1>2. disk' \in Disk
  BY <1>1, DiskFields, UpdatedFields DEF Updated, TypeOK
<1>3. Detect(kernel)' = Detect(kernel) /\ HasDirs' = HasDirs
  BY <1>1 DEF ide, HasDirs
<1>4. TypeOK'
  BY <1>1, <1>2, <1>3 DEF TypeOK, ide
<1>5. Course'
  BY <1>1, <1>3 DEF Course, ide
<1> QED
  BY <1>4, <1>5

\* A list with an entry that is not obsolete was seen when the call began or when
\* the editor wrote it; an update lists nothing that was not listed before.
LEMMA EditorSaw ==
    ASSUME TypeOK, Saw, Editor, pc # "idle"
    PROVE  Saw'
<1>1. UNCHANGED <<kernel, pc, ide>>
      /\ \/ Updated
         \/ /\ Changes /\ UNCHANGED blurred
            /\ hadList' = (hadList \/ InSomeList(disk'))
  BY EditorCases
<1>2. disk.obsolete \subseteq disk'.obsolete
  BY <1>1, DiskFields, UpdatedFields DEF Updated, TypeOK
<1>3. hadList => hadList'
  BY <1>1 DEF Updated
<1>4. blurred \subseteq blurred'
  BY <1>1 DEF Updated
<1>5. InSomeList(disk)' => hadList'
  <2>1. CASE Updated
    <3>1. InSomeList(disk)
      BY <2>1 DEF Updated, NewFolder, InSomeList, InProfile
    <3> QED
      BY <3>1, <1>3 DEF Saw
  <2>2. CASE ~Updated
    BY <2>2, <1>1
  <2> QED
    BY <2>1, <2>2
<1> QED
  BY <1>1, <1>2, <1>3, <1>4, <1>5 DEF Saw, ide

\* One operation of the editor: what the call answers now was true before it or
\* is true after it, since the call reads no file twice.
LEMMA EditorJustified ==
    ASSUME TypeOK, Course, Current, Justified, Editor, pc # "idle"
    PROVE  Current' /\ Justified'
<1>1. /\ UNCHANGED <<kernel, pc, ide>> /\ pc # "done" /\ writes' = writes + 1
      /\ \/ Updated
         \/ Changes /\ seen' = seen \cup {Truth(disk')} /\ UNCHANGED blurred
  BY EditorCases
<1>2. writes \in Nat
  BY DakAssumption DEF TypeOK
<1>3. Current'
  BY <1>1, <1>2 DEF Current
<1>4. CASE writes # 0
  BY <1>1, <1>2, <1>3, <1>4 DEF Justified
<1>5. CASE writes = 0 /\ Telling'
  <2>1. Telling /\ Truth(disk) \in seen /\ seen \subseteq seen'
    BY <1>1, <1>5 DEF Telling, FlagsRead, Started, Current, ide, Updated
  <2>2. Updated \/ Truth(disk') \in seen'
    BY <1>1
  <2>3. Updated => "update" \in blurred'
    BY DEF Updated
  <2> DEFINE c == Chosen(disk)  c2 == Chosen(disk')
             e == disk.list[ExtProfile(disk, c)]
             e2 == disk'.list[ExtProfile(disk, c2)]
             s == StateProfile(disk, c)
  <2>4. Truth(disk) = Judged(disk, e, c)
    BY TruthIsJudged
  <2>5. disk.shareExt = disk'.shareExt /\ disk.shareState = disk'.shareState
    BY <1>1, DiskFields, UpdatedFields DEF Updated, TypeOK
  <2>6. /\ ExtProfile(disk', c) = ExtProfile(disk, c) /\ StateProfile(disk', c) = s
        /\ ExtProfile(disk', c2) = ExtProfile(disk, c2)
    BY <2>5 DEF ExtProfile, StateProfile
  <2>7. Truth(disk') = Judged(disk', e2, c2)
    BY TruthIsJudged, <2>6
  <2>8. /\ c \in Profile /\ ExtProfile(disk, c) \in Profile
        /\ disk.list \in [Profile -> 0..2] /\ disk'.list \in [Profile -> 0..2]
    BY <1>1, DiskFields, UpdatedFields DEF Updated, Chosen, ExtProfile, TypeOK, Disk, Profile
  <2>9. StateProfile(disk', c2) = StateProfile(disk, c2)
    BY <2>5 DEF StateProfile
  <2>10. c2 = c \/ (disk'.ws = disk.ws /\ disk'.off = disk.off
                    /\ disk'.list = disk.list /\ disk'.obsolete = disk.obsolete)
    BY <1>1, DiskFields, UpdatedFields DEF TypeOK, Updated, Chosen
  <2>11. Started' = Started /\ profile' = profile /\ entry' = entry /\ pc' = pc
    BY <1>1 DEF Started, ide
  <2>12. SUFFICES ASSUME pc \notin {"idle", "done"}
                  PROVE  Ahead(disk)' \in seen' \/ (Updated /\ Ahead(disk)' = "not-installed")
    BY <1>1, <1>3, <2>3 DEF Justified
  <2>13. Truth(disk) \in seen'
    BY <2>1, <1>5, <2>12 DEF Current
  <2>14. Updated => Truth(disk') = Truth(disk)
    <3> SUFFICES ASSUME Updated PROVE Truth(disk') = Truth(disk)
      OBVIOUS
    <3>1. PICK p \in Profile :
            /\ disk.list[p] # 0 /\ disk'.obsolete = {disk.list[p]} /\ disk.obsolete = {}
            /\ disk'.list = [q \in Profile |->
                   IF disk.list[q] = 0 THEN 0 ELSE 3 - disk.list[p]]
            /\ disk'.ws = disk.ws /\ disk'.off = disk.off /\ disk'.assoc = disk.assoc
      BY UpdatedFields DEF TypeOK, Updated
    <3>2. c2 = c
      BY <3>1 DEF Chosen
    <3>3. e2 = IF e = 0 THEN 0 ELSE 3 - disk.list[p]
      BY <3>1, <3>2, <2>8
    <3>4. disk.list[p] \in 1..2
      BY <3>1, <2>8
    <3>5. (e2 = 0 \/ e2 \in disk'.obsolete) <=> (e = 0 \/ e \in disk.obsolete)
      BY <3>1, <3>3, <3>4
    <3>6. On(disk', c) = On(disk, c)
      BY <3>1, <2>6 DEF On
    <3> QED
      BY <2>4, <2>7, <3>2, <3>5, <3>6 DEF Judged
  <2>15. Truth(disk') \in seen'
    BY <2>2, <2>13, <2>14
  <2>16. \/ disk'.ws = disk.ws /\ disk'.off = disk.off
         \/ /\ disk'.list = disk.list /\ disk'.obsolete = disk.obsolete /\ c2 = c
            /\ disk'.ws = disk.ws \/ disk'.off = disk.off
    BY <1>1, DiskFields, UpdatedFields DEF TypeOK, Updated, Chosen
  <2>17. disk'.ws = disk.ws /\ disk'.off = disk.off => On(disk', c) = On(disk, c)
    BY <2>6 DEF On
  <2>18. disk'.list = disk.list /\ c2 = c => e2 = e
    OBVIOUS
  <2>19. disk.ws \in {"none", "on", "off"} /\ disk'.ws \in {"none", "on", "off"}
    BY <1>1, DiskFields, UpdatedFields DEF Updated, TypeOK, Disk
  <2> HIDE DEF c, c2, e, e2, s
  <2>20. CASE pc \in {"default", "obsolete0", "trust", "profile"}
    <3>1. Ahead(disk)' = Truth(disk')
      BY <2>20, <2>11 DEF Ahead, Truth, Chosen, InProfile, ExtProfile, StateProfile
    <3> QED
      BY <3>1, <2>15
  <2>21. CASE pc = "list"
    <3>1. Ahead(disk)' = Judged(disk', disk'.list[ExtProfile(disk, c)], c)
      BY <2>21, <2>11, <2>6, <1>5, <2>1
         DEF Current, Ahead, Judged, Enablement, On, StateProfile, ExtProfile, c
    <3>2. CASE c2 = c
      BY <3>1, <3>2, <2>7, <2>15 DEF e2
    <3>3. CASE c2 # c
      BY <3>1, <3>3, <2>4, <2>10, <2>13, <2>17 DEF e, Judged
    <3> QED
      BY <3>2, <3>3
  <2>22. CASE pc = "obsolete"
    <3>1. Ahead(disk)' = Judged(disk', e, c)
      BY <2>22, <2>11, <2>6, <1>5, <2>1
         DEF Current, Ahead, Judged, Enablement, On, StateProfile, c, e
    <3>2. CASE disk'.list = disk.list /\ c2 = c
      BY <3>1, <3>2, <2>7, <2>15, <2>18
    <3>3. CASE disk'.ws = disk.ws /\ disk'.off = disk.off /\ disk'.obsolete = disk.obsolete
      BY <3>1, <3>3, <2>4, <2>13, <2>17 DEF Judged
    <3>4. CASE Updated
      <4>1. disk'.ws = disk.ws /\ disk'.off = disk.off /\ disk.obsolete = {}
        BY <3>4, UpdatedFields DEF TypeOK, Updated
      <4> QED
        BY <3>1, <3>4, <4>1, <2>4, <2>13, <2>17 DEF Judged
    <3> QED
      BY <3>2, <3>3, <3>4, <1>1, <2>10, DiskFields, UpdatedFields
         DEF TypeOK, Updated, Chosen, c, c2
  <2>23. CASE pc \in {"workspace", "enabled", "disabled", "global"}
    <3>1. e # 0 /\ e \notin disk.obsolete /\ "disable" \notin Started /\ profile = c
      BY <2>23, <1>5, <2>1 DEF Current, e, c
    <3>2. Truth(disk) = Enablement(On(disk, c))
      BY <3>1, <2>4 DEF Judged, Enablement
    <3>3. disk'.list = disk.list /\ disk'.obsolete = disk.obsolete /\ c2 = c
            => Truth(disk') = Enablement(On(disk', c))
      BY <3>1, <2>7, <2>18 DEF Judged, Enablement
    <3>4. On(disk, c) = (disk.ws = "on" \/ (disk.ws = "none" /\ ~disk.off[s]))
      BY DEF On, s
    <3>5. On(disk', c) = (disk'.ws = "on" \/ (disk'.ws = "none" /\ ~disk'.off[s]))
      BY <2>6 DEF On
    <3>6. CASE pc \in {"workspace", "enabled"}
      <4>1. Ahead(disk)' = Enablement(On(disk', c))
        BY <3>6, <2>11, <3>1 DEF Ahead, Enablement, On, StateProfile
      <4> QED
        BY <4>1, <3>2, <3>3, <2>13, <2>15, <2>16, <2>17
    <3>7. CASE pc = "disabled"
      <4>1. Ahead(disk)' = Enablement(disk'.ws # "off" /\ ~disk'.off[s])
        BY <3>7, <2>11, <2>6, <3>1 DEF Ahead, Enablement, StateProfile
      <4>2. disk.ws # "on"
        BY <3>7, <1>5, <2>1 DEF Current
      <4> QED
        BY <4>1, <4>2, <3>2, <3>3, <3>4, <3>5, <2>13, <2>15, <2>16, <2>19 DEF Enablement
    <3>8. CASE pc = "global"
      <4>1. Ahead(disk)' = Enablement(~disk'.off[s])
        BY <3>8, <2>11, <2>6, <3>1 DEF Ahead, Enablement, StateProfile
      <4>2. disk.ws = "none"
        BY <3>8, <1>5, <2>1 DEF Current
      <4> QED
        BY <4>1, <4>2, <3>2, <3>3, <3>4, <3>5, <2>13, <2>15, <2>16, <2>19 DEF Enablement
    <3> QED
      BY <2>23, <3>6, <3>7, <3>8
  <2> QED
    BY <2>12, <2>20, <2>21, <2>22, <2>23 DEF TypeOK, Pc
<1>6. CASE writes = 0 /\ ~Telling'
  BY <1>3, <1>6 DEF Justified
<1> QED
  BY <1>3, <1>4, <1>5, <1>6

\* Every operation of the editor preserves the inductive invariant.
LEMMA EditorStep ==
    ASSUME IInv, Editor
    PROVE  IInv'
<1> USE DEF IInv
<1>1. CASE pc = "idle"
  <2>1. /\ UNCHANGED <<kernel, pc, ide, history>>
        /\ Changes \/ NewFolder \/ disk' \in Disk
    BY <1>1, EditorCases
  <2>2. disk' \in Disk
    BY <2>1, DiskFields, UpdatedFields DEF TypeOK
  <2>3. Detect(kernel)' = Detect(kernel)
    BY <2>1
  <2>4. TypeOK' /\ Course'
    BY <1>1, <2>1, <2>2, <2>3 DEF TypeOK, Course, Deep, ide, history
  <2>5. Saw'
    BY <1>1, <2>1 DEF Saw, ide, history
  <2>6. Current' /\ Justified'
    BY <1>1, <2>1 DEF Current, Justified, ide, history
  <2> QED
    BY <2>4, <2>5, <2>6
<1>2. CASE pc # "idle"
  BY <1>2, EditorTypes, EditorSaw, EditorJustified
<1> QED
  BY <1>1, <1>2

-----------------------------------------------------------------------------

\* A call begins with everything still to read, so its answer would be the truth.
LEMMA DakLinksStep ==
    ASSUME IInv, DakLinks
    PROVE  IInv'
<1> USE DEF IInv
<1>1. /\ pc = "idle" /\ info' = (IF info.family THEN info ELSE Detect(kernel))
      /\ pc' = IF ~info'.family THEN "done"
               ELSE IF info'.how = "ident" THEN "trust" ELSE "default"
      /\ seen' = {Truth(disk)} /\ hadList' = InSomeList(disk)
      /\ UNCHANGED <<kernel, disk, entry, listed, profile, state, link, writes, blurred>>
  BY DEF DakLinks
<1>2. info' = Detect(kernel) \/ (info' = info /\ info.family)
  BY <1>1
<1>3. info' = Detect(kernel)
  BY <1>2 DEF TypeOK, NoInfo
<1>4. Truth(disk) \in {"enabled", "disabled", "not-installed"} /\ InSomeList(disk) \in BOOLEAN
  BY DEF Truth, InSomeList
<1>5. pc' \in {"done", "trust", "default"}
  BY <1>1
<1>6. Detect(kernel)' = Detect(kernel) /\ Truth(disk)' = Truth(disk)
      /\ InSomeList(disk)' = InSomeList(disk)
  BY <1>1 DEF Truth, Chosen, Started, InSomeList
<1>7. TypeOK'
  BY <1>1, <1>3, <1>4, <1>5, <1>6 DEF TypeOK, Pc
<1>8. Course'
  BY <1>1, <1>3, <1>5, <1>6 DEF Course, Deep
<1>9. Saw'
  BY <1>1, <1>5, <1>6 DEF Saw, Course
<1>10. Current'
  BY <1>1, <1>5, <1>6 DEF Current
<1>11. Ahead(disk)' \in seen' \cup {"unknown"}
  BY <1>1, <1>5, <1>6 DEF Ahead, Course
<1>12. Justified'
  BY <1>11 DEF Justified
<1> QED
  BY <1>7, <1>8, <1>9, <1>10, <1>12

\* A step of a call that reads: the editor does nothing meanwhile.  If the call
\* goes on to answer the same from the same disk, the answer stays justified.
LEMMA ReadStep ==
    ASSUME TypeOK, Course, Justified, UNCHANGED <<kernel, disk, info, writes, seen>>,
           pc # "idle", blurred \subseteq blurred',
           Telling' => Ahead(disk)' \in {Ahead(disk), "unknown"}
    PROVE  Justified'
<1> SUFFICES ASSUME Telling', writes <= 1
             PROVE  Ahead(disk)' \in seen \cup {"unknown"}
                    \/ ("update" \in blurred' /\ Ahead(disk)' = "not-installed")
  BY DEF Justified
<1>1. Telling
  BY DEF Telling, FlagsRead, Started
<1> QED
  BY <1>1 DEF Justified

\* What the end of a call answers, and the link it makes of it.
LEMMA AnswerIs ==
    ASSUME NEW a \in {"unknown", "enabled", "disabled", "not-installed"}, Answer(a)
    PROVE  /\ state' = a /\ pc' = "done" /\ link' \in BOOLEAN
           /\ link' => a = "enabled"
           /\ Ahead(disk)' = a
BY DEF Answer, Ahead

\* The call ends and what it read is forgotten.
LEMMA DisplayedStep ==
    ASSUME IInv, Displayed
    PROVE  IInv'
<1> USE DEF IInv
<1>1. /\ pc' = "idle" /\ entry' = 0 /\ listed' = "unreadable" /\ profile' = "default"
      /\ state' = "unknown" /\ link' = FALSE
      /\ writes' = 0 /\ blurred' = {} /\ seen' = {} /\ hadList' = FALSE
      /\ UNCHANGED <<kernel, disk, info>>
  BY DEF Displayed
<1>2. 0 \in 0..MaxWrites /\ Detect(kernel)' = Detect(kernel)
  BY <1>1, DakAssumption
<1>3. TypeOK'
  <2>1. /\ pc' \in Pc /\ listed' \in {"yes", "no", "unreadable"} /\ profile' \in Profile
        /\ state' \in {"unknown", "enabled", "disabled", "not-installed"}
    BY <1>1 DEF Pc, Profile
  <2>4. entry' \in 0..2
    BY <1>1
  <2>5. link' \in BOOLEAN /\ hadList' \in BOOLEAN
    BY <1>1
  <2>2. /\ writes' \in 0..MaxWrites /\ blurred' \subseteq {"update", "missed", "elsewhere"}
        /\ seen' \subseteq {"enabled", "disabled", "not-installed"}
    BY <1>1, <1>2
  <2>3. kernel' \in Setups /\ disk' \in Disk /\ (info \in {NoInfo, Detect(kernel)})'
    BY <1>1, <1>2 DEF TypeOK
  <2> QED
    BY <2>1, <2>2, <2>3, <2>4, <2>5 DEF TypeOK
<1>4. Course'
  BY <1>1 DEF Course, Deep
<1>5. Saw'
  BY <1>1 DEF Saw
<1>6. Current' /\ Justified'
  BY <1>1 DEF Current, Justified
<1> QED
  BY <1>3, <1>4, <1>5, <1>6

\* extensions.json of the default profile: nothing the answer for the profile in
\* use depends on.
LEMMA ReadDefaultListStep ==
    ASSUME IInv, ReadDefaultList
    PROVE  IInv'
<1> USE DEF IInv
<1>1. /\ pc = "default" /\ UNCHANGED <<kernel, disk, info, profile, state, link, history>>
      /\ \/ entry' = disk.list["default"] /\ pc' = "obsolete0" /\ listed' = "no"
         \/ pc' = "trust" /\ listed' = "unreadable" /\ entry' = entry
  BY DEF ReadDefaultList, Quiet
<1>2. disk.list["default"] \in 0..2
  BY DEF TypeOK, Disk, Profile
<1>3. Detect(kernel)' = Detect(kernel) /\ Truth(disk)' = Truth(disk)
      /\ InSomeList(disk)' = InSomeList(disk)
  BY <1>1 DEF Truth, Chosen, Started, InSomeList
<1>4. TypeOK'
  BY <1>1, <1>2, <1>3 DEF TypeOK, Pc, history
<1>5. Course'
  BY <1>1, <1>3 DEF Course, Deep
<1>6. disk.list["default"] # 0 /\ disk.list["default"] \notin disk.obsolete => InSomeList(disk)
  BY DEF InSomeList, InProfile, Profile
<1>7. Saw'
  BY <1>1, <1>3, <1>6 DEF Saw, history
<1>8. Current'
  BY <1>1, <1>3 DEF Current, Telling, FlagsRead, Started, history
<1>9. Justified'
  BY <1>1, <1>3, ReadStep DEF Ahead, history
<1> QED
  BY <1>4, <1>5, <1>7, <1>8, <1>9

\* .obsolete of the default profile: what is found in the list now was there.
LEMMA ReadDefaultObsoleteStep ==
    ASSUME IInv, ReadDefaultObsolete
    PROVE  IInv'
<1> USE DEF IInv
<1>1. PICK obs \in {disk.obsolete, {}} :
         /\ listed' = IF entry # 0 /\ entry \notin obs THEN "yes" ELSE "no"
         /\ blurred' = IF entry \in disk.obsolete \ obs THEN blurred \cup {"missed"}
                       ELSE blurred
  BY DEF ReadDefaultObsolete
<1>2. /\ pc = "obsolete0" /\ pc' = "trust"
      /\ UNCHANGED <<kernel, disk, info, entry, profile, state, link, writes, seen, hadList>>
  BY DEF ReadDefaultObsolete
<1>3. Detect(kernel)' = Detect(kernel) /\ Truth(disk)' = Truth(disk)
      /\ InSomeList(disk)' = InSomeList(disk)
  BY <1>2 DEF Truth, Chosen, Started, InSomeList
<1>4. blurred \subseteq blurred' /\ blurred' \subseteq blurred \cup {"missed"}
  BY <1>1
<1>5. TypeOK'
  BY <1>1, <1>2, <1>3, <1>4 DEF TypeOK, Pc
<1>6. Course'
  BY <1>2, <1>3 DEF Course, Deep
<1>7. "missed" \notin blurred' /\ listed' = "yes" => entry # 0 /\ entry \notin disk.obsolete
  BY <1>1
<1>8. Saw'
  BY <1>2, <1>3, <1>4, <1>7 DEF Saw
<1>9. Current'
  BY <1>2, <1>3, <1>4 DEF Current, Telling, FlagsRead, Started
<1>10. Justified'
  BY <1>2, <1>3, <1>4, ReadStep DEF Ahead
<1> QED
  BY <1>5, <1>6, <1>8, <1>9, <1>10

\* The variable alone answers nothing for a desktop editor without it.
LEMMA TrustStep ==
    ASSUME IInv, Trust
    PROVE  IInv'
<1> USE DEF IInv
<1>1. pc = "trust" /\ UNCHANGED <<kernel, disk, info, entry, listed, profile, history>>
  BY DEF Trust, Quiet
<1>2. Detect(kernel)' = Detect(kernel) /\ Truth(disk)' = Truth(disk)
      /\ InSomeList(disk)' = InSomeList(disk)
  BY <1>1 DEF Truth, Chosen, Started, InSomeList
<1>3. CASE ~kernel.dak /\ ~info.server /\ HasDirs
  <2>1. pc' = "profile" /\ UNCHANGED <<state, link>>
    BY <1>3 DEF Trust
  <2>2. TypeOK'
    BY <1>1, <1>2, <2>1 DEF TypeOK, Pc, history
  <2>3. Course'
    BY <1>1, <1>2, <1>3, <2>1 DEF Course, Deep, HasDirs
  <2>4. Saw'
    BY <1>1, <1>2, <2>1 DEF Saw, history
  <2>5. Current'
    BY <1>1, <1>2, <2>1 DEF Current, Telling, FlagsRead, Started, history
  <2>6. Justified'
    BY <1>1, <1>2, <2>1, ReadStep DEF Ahead, history
  <2> QED
    BY <2>2, <2>3, <2>4, <2>5, <2>6
<1>4. CASE kernel.dak \/ info.server \/ ~HasDirs
  <2>1. PICK a \in {"unknown", "enabled", "not-installed"} :
          /\ Answer(a)
          /\ a = "enabled" => listed # "no"
          /\ a # "unknown" => kernel.dak \/ info.server
    <3>1. CASE kernel.dak
      BY <3>1 DEF Trust
    <3>2. CASE ~kernel.dak /\ info.server
      BY <3>2 DEF Trust
    <3>3. CASE ~kernel.dak /\ ~info.server
      BY <1>4, <3>3 DEF Trust
    <3> QED
      BY <3>1, <3>2, <3>3
  <2>2. /\ state' = a /\ pc' = "done" /\ link' \in BOOLEAN
        /\ link' => a = "enabled"
        /\ Ahead(disk)' = a
    BY <2>1, AnswerIs
  <2>3. TypeOK'
    BY <1>1, <1>2, <2>2 DEF TypeOK, Pc, history
  <2>4. Course'
    BY <2>2 DEF Course, Deep
  <2>5. Saw'
    BY <1>1, <1>2, <2>1, <2>2 DEF Saw, TypeOK, history
  <2>6. Current'
    BY <2>2 DEF Current
  <2>7. Telling' => Ahead(disk)' = "unknown"
    BY <1>1, <2>1, <2>2 DEF Telling, FlagsRead, Started
  <2>8. Justified'
    BY <1>1, <2>7, ReadStep DEF history
  <2> QED
    BY <2>3, <2>4, <2>5, <2>6, <2>8
<1> QED
  BY <1>3, <1>4

\* A read that fails ends the call without an answer.
LEMMA UnknownStep ==
    ASSUME IInv, Unknown, Quiet, pc # "idle"
    PROVE  IInv'
<1> USE DEF IInv
<1>1. /\ state' = "unknown" /\ pc' = "done" /\ ~link' /\ link' \in BOOLEAN
      /\ Ahead(disk)' = "unknown"
      /\ UNCHANGED <<kernel, disk, history, info, entry, listed, profile>>
  BY DEF Unknown, Quiet, Answer, Ahead
<1>2. Detect(kernel)' = Detect(kernel) /\ InSomeList(disk)' = InSomeList(disk)
  BY <1>1 DEF InSomeList
<1>3. TypeOK'
  BY <1>1, <1>2 DEF TypeOK, Pc, history
<1>4. Course'
  BY <1>1 DEF Course, Deep
<1>5. Saw'
  BY <1>1, <1>2 DEF Saw, history
<1>6. Current'
  BY <1>1 DEF Current
<1>7. Justified'
  BY <1>1, ReadStep DEF history
<1> QED
  BY <1>3, <1>4, <1>5, <1>6, <1>7

\* The profile in use, whose flags have been read.
LEMMA ReadProfileStep ==
    ASSUME IInv, ReadProfile
    PROVE  IInv'
<1> USE DEF IInv
<1>1. pc = "profile"
  BY DEF ReadProfile
<1>2. CASE Unknown /\ Quiet
  BY <1>1, <1>2, UnknownStep
<1>3. CASE ~(Unknown /\ Quiet)
  <2>1. /\ pc' = "list"
        /\ UNCHANGED <<kernel, disk, info, entry, listed, state, link, writes, seen, hadList>>
        /\ \/ /\ profile' = IF "profile" \in info.flags THEN "custom"
                             ELSE IF kernel.notebook THEN disk.assoc ELSE "default"
              /\ UNCHANGED blurred
           \/ profile' \in Profile /\ blurred' = blurred \cup {"elsewhere"}
    BY <1>1, <1>3 DEF ReadProfile
  <2>2. Detect(kernel)' = Detect(kernel) /\ Truth(disk)' = Truth(disk)
        /\ InSomeList(disk)' = InSomeList(disk) /\ Started' = Started
        /\ Chosen(disk)' = Chosen(disk)
    BY <2>1 DEF Truth, Chosen, Started, InSomeList
  <2>3. profile' \in Profile /\ blurred \subseteq blurred'
        /\ blurred' \subseteq blurred \cup {"elsewhere"}
    BY <2>1 DEF TypeOK, Disk, Profile
  <2>4. TypeOK'
    BY <2>1, <2>2, <2>3 DEF TypeOK, Pc
  <2>5. Course'
    BY <1>1, <2>1, <2>2 DEF Course, Deep, HasDirs
  <2>6. Saw'
    BY <1>1, <2>1, <2>2, <2>3 DEF Saw
  <2>7. Telling' => Telling /\ profile' = Chosen(disk)
    BY <2>1, <2>3 DEF Telling, FlagsRead, Started, Chosen
  <2>8. Current'
    BY <1>1, <2>1, <2>2, <2>7 DEF Current
  <2>9. Telling' => Ahead(disk)' = Truth(disk)
    <3>1. Truth(disk)' = Judged(disk, disk.list[ExtProfile(disk, Chosen(disk))], Chosen(disk))
      BY <2>2, TruthIsJudged
    <3> QED
      BY <2>1, <2>2, <2>7, <3>1
         DEF Ahead, Judged, On, Enablement, ExtProfile, StateProfile
  <2>10. Ahead(disk) = Truth(disk)
    BY <1>1 DEF Ahead
  <2>11. Justified'
    BY <1>1, <2>1, <2>3, <2>9, <2>10, ReadStep
  <2> QED
    BY <2>4, <2>5, <2>6, <2>8, <2>11
<1> QED
  BY <1>2, <1>3

\* The entry of that profile.
LEMMA ReadListStep ==
    ASSUME IInv, ReadList
    PROVE  IInv'
<1> USE DEF IInv
<1>1. pc = "list" /\ Quiet
  BY DEF ReadList
<1>2. CASE Unknown
  BY <1>1, <1>2, UnknownStep
<1>3. CASE ~Unknown
  <2>1. /\ entry' = disk.list[ExtProfile(disk, profile)]
        /\ pc' = "obsolete"
        /\ UNCHANGED <<kernel, disk, history, info, listed, profile, state, link>>
    BY <1>1, <1>3 DEF ReadList, Quiet
  <2>2. Detect(kernel)' = Detect(kernel) /\ Truth(disk)' = Truth(disk)
        /\ InSomeList(disk)' = InSomeList(disk) /\ Started' = Started
        /\ Chosen(disk)' = Chosen(disk)
    BY <2>1 DEF Truth, Chosen, Started, InSomeList
  <2>3. ExtProfile(disk, profile) \in Profile
    BY DEF TypeOK, ExtProfile, Profile
  <2>4. entry' \in 0..2
    BY <2>1, <2>3 DEF TypeOK, Disk
  <2>5. TypeOK'
    BY <2>1, <2>2, <2>4 DEF TypeOK, Pc, history
  <2>6. Course'
    BY <1>1, <2>1, <2>2 DEF Course, Deep, HasDirs
  <2>7. entry' # 0 /\ entry' \notin disk.obsolete => InSomeList(disk)
    BY <2>1, <2>3 DEF InSomeList, InProfile
  <2>8. Saw'
    BY <1>1, <2>1, <2>2, <2>7 DEF Saw, history
  <2>9. ExtProfile(disk, profile)' = ExtProfile(disk, profile)
    BY <2>1 DEF ExtProfile
  <2>10. Current'
    BY <1>1, <2>1, <2>2, <2>9 DEF Current, Telling, FlagsRead, Started, history
  <2>11. Ahead(disk)' = Ahead(disk)
    BY <1>1, <2>1, <2>2 DEF Ahead, Judged, On, Enablement, StateProfile, ExtProfile
  <2>12. Justified'
    BY <1>1, <2>1, <2>11, ReadStep DEF history
  <2> QED
    BY <2>5, <2>6, <2>8, <2>10, <2>12
<1> QED
  BY <1>2, <1>3

\* .obsolete and the launch flags: not installed, disabled, or up to the lists.
LEMMA ReadObsoleteStep ==
    ASSUME IInv, ReadObsolete
    PROVE  IInv'
<1> USE DEF IInv
<1>1. PICK obs \in {disk.obsolete, {}} :
         /\ IF entry = 0 \/ entry \in obs THEN Answer("not-installed")
            ELSE IF "disable" \in info.flags THEN Answer("disabled")
            ELSE IF "disable?" \in info.flags THEN Answer("unknown")
            ELSE /\ pc' = IF kernel.notebook THEN "workspace" ELSE "global"
                 /\ UNCHANGED <<state, link>>
         /\ blurred' = IF entry \in disk.obsolete \ obs THEN blurred \cup {"missed"}
                       ELSE blurred
  BY DEF ReadObsolete
<1>2. /\ pc = "obsolete"
      /\ UNCHANGED <<kernel, disk, info, entry, listed, profile, writes, seen, hadList>>
  BY DEF ReadObsolete
<1>3. Detect(kernel)' = Detect(kernel) /\ Truth(disk)' = Truth(disk)
      /\ InSomeList(disk)' = InSomeList(disk) /\ Started' = Started
      /\ Chosen(disk)' = Chosen(disk)
  BY <1>2 DEF Truth, Chosen, Started, InSomeList
<1>4. blurred \subseteq blurred' /\ blurred' \subseteq blurred \cup {"missed"}
  BY <1>1
<1>5. "missed" \notin blurred' => (entry \in obs <=> entry \in disk.obsolete)
  BY <1>1
<1>6. FlagsRead => ("disable" \in Started <=> "disable" \in info.flags)
  BY DEF FlagsRead
<1>7. Ahead(disk) = Judged(disk, entry, profile)
  BY <1>2 DEF Ahead
<1>8. CASE entry = 0 \/ entry \in obs \/ "disable" \in info.flags \/ "disable?" \in info.flags
  <2>1. PICK a \in {"not-installed", "disabled", "unknown"} :
          /\ Answer(a)
          /\ entry = 0 \/ entry \in obs => a = "not-installed"
          /\ ~(entry = 0 \/ entry \in obs) /\ a # "unknown" =>
                a = "disabled" /\ "disable" \in info.flags
    <3>1. CASE entry = 0 \/ entry \in obs
      BY <1>1, <3>1
    <3>2. CASE ~(entry = 0 \/ entry \in obs) /\ "disable" \in info.flags
      BY <1>1, <3>2
    <3>3. CASE ~(entry = 0 \/ entry \in obs) /\ "disable" \notin info.flags
      BY <1>1, <1>8, <3>3
    <3> QED
      BY <3>1, <3>2, <3>3
  <2>2. /\ state' = a /\ pc' = "done" /\ link' \in BOOLEAN /\ ~link'
        /\ Ahead(disk)' = a
    BY <2>1, AnswerIs
  <2>3. TypeOK'
    BY <1>2, <1>3, <1>4, <2>2 DEF TypeOK, Pc
  <2>4. Course'
    BY <2>2 DEF Course, Deep
  <2>5. Saw'
    BY <1>2, <1>3, <1>4, <2>2 DEF Saw
  <2>6. Current'
    BY <2>2 DEF Current
  <2>7. Telling' => a \in {Ahead(disk), "unknown"}
    BY <1>2, <1>5, <1>6, <1>7, <2>1 DEF Telling, FlagsRead, Started, Judged, Enablement
  <2>8. Justified'
    BY <1>2, <1>4, <2>2, <2>7, ReadStep
  <2> QED
    BY <2>3, <2>4, <2>5, <2>6, <2>8
<1>9. CASE ~(entry = 0 \/ entry \in obs \/ "disable" \in info.flags
             \/ "disable?" \in info.flags)
  <2>1. pc' = (IF kernel.notebook THEN "workspace" ELSE "global") /\ UNCHANGED <<state, link>>
    BY <1>1, <1>9
  <2>2. pc' \in {"workspace", "global"}
    BY <2>1
  <2>3. TypeOK'
    BY <1>2, <1>3, <1>4, <2>1, <2>2 DEF TypeOK, Pc
  <2>4. Course'
    BY <1>2, <1>3, <2>1, <2>2 DEF Course, Deep, HasDirs
  <2>5. Saw'
    BY <1>2, <1>3, <1>4, <1>5, <1>9, <2>2 DEF Saw
  <2>6. ExtProfile(disk, profile)' = ExtProfile(disk, profile)
    BY <1>2 DEF ExtProfile
  <2>7. Telling' => /\ Telling /\ pc' = "workspace" /\ entry \notin disk.obsolete
                    /\ "disable" \notin Started
    BY <1>2, <1>4, <1>5, <1>6, <1>9, <2>1 DEF Telling, FlagsRead, Started
  <2>8. Current'
    BY <1>2, <1>3, <1>9, <2>6, <2>7 DEF Current
  <2>9. Telling' => Ahead(disk)' = Ahead(disk)
    <3> SUFFICES ASSUME Telling' PROVE Ahead(disk)' = Ahead(disk)
      OBVIOUS
    <3>1. Ahead(disk)' = Enablement(On(disk, profile))
      BY <1>2, <2>7 DEF Ahead, Enablement, On, StateProfile
    <3>2. Ahead(disk) = Enablement(On(disk, profile))
      BY <1>7, <1>9, <2>7 DEF Judged, Enablement
    <3> QED
      BY <3>1, <3>2
  <2>10. Justified'
    BY <1>2, <1>4, <2>9, ReadStep
  <2> QED
    BY <2>3, <2>4, <2>5, <2>8, <2>10
<1> QED
  BY <1>8, <1>9

\* The workspace of the notebook's window: everything about it is still to be read.
LEMMA FindWorkspaceStep ==
    ASSUME IInv, FindWorkspace
    PROVE  IInv'
<1> USE DEF IInv
<1>1. pc = "workspace"
  BY DEF FindWorkspace
<1>2. CASE Unknown /\ Quiet
  BY <1>1, <1>2, UnknownStep
<1>3. CASE ~(Unknown /\ Quiet)
  <2>1. /\ UNCHANGED <<kernel, disk, info, entry, listed, profile, state, link, writes,
                      seen, hadList>>
        /\ \/ pc' = "enabled" /\ UNCHANGED blurred
           \/ pc' \in {"enabled", "global"} /\ blurred' = blurred \cup {"elsewhere"}
    BY <1>3 DEF FindWorkspace, ide
  <2>2. Detect(kernel)' = Detect(kernel) /\ Truth(disk)' = Truth(disk)
        /\ InSomeList(disk)' = InSomeList(disk) /\ Started' = Started
        /\ Chosen(disk)' = Chosen(disk) /\ ExtProfile(disk, profile)' = ExtProfile(disk, profile)
    BY <2>1 DEF Truth, Chosen, Started, InSomeList, ExtProfile
  <2>3. blurred \subseteq blurred' /\ blurred' \subseteq blurred \cup {"elsewhere"}
        /\ pc' \in {"enabled", "global"}
    BY <2>1
  <2>4. TypeOK'
    BY <2>1, <2>2, <2>3 DEF TypeOK, Pc
  <2>5. Course'
    BY <1>1, <2>1, <2>2, <2>3 DEF Course, Deep, HasDirs
  <2>6. Saw'
    BY <1>1, <2>1, <2>2, <2>3 DEF Saw
  <2>7. Telling' => Telling /\ pc' = "enabled"
    BY <2>1, <2>3 DEF Telling, FlagsRead, Started
  <2>8. Current'
    BY <1>1, <2>1, <2>2, <2>7 DEF Current
  <2>9. Telling' => Ahead(disk)' = Ahead(disk)
    BY <1>1, <2>1, <2>7 DEF Ahead, Enablement, On, StateProfile
  <2>10. Justified'
    BY <1>1, <2>1, <2>3, <2>9, ReadStep
  <2> QED
    BY <2>4, <2>5, <2>6, <2>8, <2>10
<1> QED
  BY <1>2, <1>3

\* A list of a database: an answer the rest would have led to, or the next list.
LEMMA ReadIdListStep ==
    ASSUME IInv, NEW a \in {"unknown", "enabled", "disabled"}, Answer(a), Quiet,
           UNCHANGED <<info, entry, listed, profile>>,
           pc \in {"enabled", "disabled", "global"},
           Telling => a \in {Ahead(disk), "unknown"}
    PROVE  IInv'
<1> USE DEF IInv
<1>1. /\ state' = a /\ pc' = "done" /\ link' \in BOOLEAN
      /\ Ahead(disk)' = a
  BY AnswerIs
<1>2. UNCHANGED <<kernel, disk, history, info, entry, listed, profile>>
  BY DEF Quiet
<1>3. Detect(kernel)' = Detect(kernel) /\ InSomeList(disk)' = InSomeList(disk)
  BY <1>2 DEF InSomeList
<1>4. TypeOK'
  BY <1>1, <1>2, <1>3 DEF TypeOK, Pc, history
<1>5. Course'
  BY <1>1 DEF Course, Deep
<1>6. Saw'
  BY <1>1, <1>2, <1>3 DEF Saw, history
<1>7. Current'
  BY <1>1 DEF Current
<1>8. Telling' => Telling
  BY <1>2 DEF Telling, FlagsRead, Started, history
<1>9. Justified'
  BY <1>1, <1>2, <1>8, ReadStep DEF history
<1> QED
  BY <1>4, <1>5, <1>6, <1>7, <1>9

\* The call goes on to the next list.
LEMMA NextListStep ==
    ASSUME IInv, Quiet, UNCHANGED <<info, entry, listed, profile, state, link>>,
           \/ pc = "enabled" /\ pc' = "disabled" /\ (Telling => disk.ws # "on")
           \/ pc = "disabled" /\ pc' = "global" /\ (Telling => disk.ws # "off")
    PROVE  IInv'
<1> USE DEF IInv
<1>1. UNCHANGED <<kernel, disk, history, info, entry, listed, profile, state, link>>
  BY DEF Quiet
<1>2. Detect(kernel)' = Detect(kernel) /\ Truth(disk)' = Truth(disk)
      /\ InSomeList(disk)' = InSomeList(disk) /\ Started' = Started
      /\ Chosen(disk)' = Chosen(disk) /\ ExtProfile(disk, profile)' = ExtProfile(disk, profile)
  BY <1>1 DEF Truth, Chosen, Started, InSomeList, ExtProfile
<1>3. TypeOK'
  BY <1>1, <1>2 DEF TypeOK, Pc, history
<1>4. Course'
  BY <1>1, <1>2 DEF Course, Deep, HasDirs
<1>5. Saw'
  BY <1>1, <1>2 DEF Saw, history
<1>6. disk.ws \in {"none", "on", "off"}
  BY DEF TypeOK, Disk
<1>7. Current'
  BY <1>1, <1>2, <1>6 DEF Current, Telling, FlagsRead, Started, history
<1>8. Telling => Ahead(disk)' = Ahead(disk)
  BY <1>1, <1>6 DEF Ahead, Enablement, On, StateProfile
<1>9. Justified'
  BY <1>1, <1>8, ReadStep DEF Telling, FlagsRead, Started, history
<1> QED
  BY <1>3, <1>4, <1>5, <1>7, <1>9

\* The workspace's list of enabled extensions.
LEMMA ReadEnabledStep ==
    ASSUME IInv, ReadEnabled
    PROVE  IInv'
<1>1. PICK found \in InWorkspace("on") :
         ReadIdList("enabled", found, "enabled", pc' = "disabled" /\ UNCHANGED <<state, link>>)
  BY DEF ReadEnabled
<1>2. pc = "enabled" /\ Quiet
  BY <1>1 DEF ReadIdList
<1>3. Telling => (found <=> disk.ws = "on")
  BY <1>1 DEF InWorkspace, Telling
<1>4. CASE Unknown
  BY <1>2, <1>4, UnknownStep
<1>5. CASE ~Unknown /\ found
  <2>1. Answer("enabled") /\ UNCHANGED <<info, entry, listed, profile>>
    BY <1>1, <1>5 DEF ReadIdList
  <2>2. Telling => Ahead(disk) = "enabled"
    BY <1>2, <1>3, <1>5 DEF Ahead, Enablement, On
  <2> QED
    BY <1>2, <2>1, <2>2, ReadIdListStep
<1>6. CASE ~Unknown /\ ~found
  BY <1>1, <1>2, <1>3, <1>6, NextListStep DEF ReadIdList
<1> QED
  BY <1>4, <1>5, <1>6

\* The workspace's list of disabled extensions.
LEMMA ReadDisabledStep ==
    ASSUME IInv, ReadDisabled
    PROVE  IInv'
<1>1. PICK found \in InWorkspace("off") :
         ReadIdList("disabled", found, "disabled", pc' = "global" /\ UNCHANGED <<state, link>>)
  BY DEF ReadDisabled
<1>2. pc = "disabled" /\ Quiet
  BY <1>1 DEF ReadIdList
<1>3. Telling => (found <=> disk.ws = "off")
  BY <1>1 DEF InWorkspace, Telling
<1>4. CASE Unknown
  BY <1>2, <1>4, UnknownStep
<1>5. CASE ~Unknown /\ found
  <2>1. Answer("disabled") /\ UNCHANGED <<info, entry, listed, profile>>
    BY <1>1, <1>5 DEF ReadIdList
  <2>2. Telling => Ahead(disk) = "disabled"
    BY <1>2, <1>3, <1>5 DEF Ahead, Enablement
  <2> QED
    BY <1>2, <2>1, <2>2, ReadIdListStep
<1>6. CASE ~Unknown /\ ~found
  BY <1>1, <1>2, <1>3, <1>6, NextListStep DEF ReadIdList
<1> QED
  BY <1>4, <1>5, <1>6

\* The profile's own list, the last thing that is read.
LEMMA ReadGlobalStep ==
    ASSUME IInv, ReadGlobal
    PROVE  IInv'
<1>1. pc = "global" /\ Quiet
  BY DEF ReadGlobal, ReadIdList
<1>2. CASE Unknown
  BY <1>1, <1>2, UnknownStep
<1>3. CASE ~Unknown
  <2> DEFINE a == IF disk.off[StateProfile(disk, profile)] THEN "disabled" ELSE "enabled"
  <2>1. Answer(a) /\ UNCHANGED <<info, entry, listed, profile>>
    BY <1>3 DEF ReadGlobal, ReadIdList
  <2>2. a = Ahead(disk)
    BY <1>1 DEF Ahead, Enablement
  <2>3. a \in {"unknown", "enabled", "disabled"}
    OBVIOUS
  <2> HIDE DEF a
  <2> QED
    BY <1>1, <2>1, <2>2, <2>3, ReadIdListStep
<1> QED
  BY <1>2, <1>3

\* The invariant is inductive.
LEMMA StepIInv == IInv /\ [Next]_vars => IInv'
<1> SUFFICES ASSUME IInv, [Next]_vars PROVE IInv'
  OBVIOUS
<1>1. CASE Call
  BY <1>1, DakLinksStep, ReadDefaultListStep, ReadDefaultObsoleteStep, TrustStep,
     ReadProfileStep, ReadListStep, ReadObsoleteStep, FindWorkspaceStep, ReadEnabledStep,
     ReadDisabledStep, ReadGlobalStep, DisplayedStep DEF Call
<1>2. CASE Editor
  BY <1>2, EditorStep
<1>3. CASE UNCHANGED vars
  <2>1. UNCHANGED <<kernel, disk, pc, info, entry, listed, profile, state, link, writes,
                    blurred, seen, hadList>>
    BY <1>3 DEF vars, ide, history
  <2>2. Detect(kernel)' = Detect(kernel) /\ Truth(disk)' = Truth(disk)
        /\ InSomeList(disk)' = InSomeList(disk) /\ Started' = Started
        /\ Chosen(disk)' = Chosen(disk) /\ ExtProfile(disk, profile)' = ExtProfile(disk, profile)
        /\ Ahead(disk)' = Ahead(disk)
    BY <2>1 DEF Truth, Chosen, Started, InSomeList, ExtProfile, Ahead, Judged, On,
                Enablement, StateProfile
  <2>3. TypeOK' /\ Course'
    BY <2>1, <2>2 DEF IInv, TypeOK, Course, HasDirs
  <2>4. Saw' /\ Current'
    BY <2>1, <2>2 DEF IInv, Saw, Current, Telling, FlagsRead, Started
  <2>5. Justified'
    BY <2>1, <2>2 DEF IInv, Justified, Telling, FlagsRead, Started
  <2> QED
    BY <2>3, <2>4, <2>5 DEF IInv
<1> QED
  BY <1>1, <1>2, <1>3 DEF Next

-----------------------------------------------------------------------------

\* The inductive invariant holds in every reachable state.
LEMMA Invariance == Spec => []IInv
BY InitIInv, StepIInv, PTL DEF Spec

\* Type correctness: every variable has its type, for any kernel and any editor.
THEOREM TypeCorrect == Spec => []TypeOK
<1>1. IInv => TypeOK
  BY DEF IInv
<1> QED
  BY <1>1, Invariance, PTL

\* DATA_CLOUD_CURR_IDE_NAME that leaked from elsewhere makes no link where the list
\* of the editor can be read, whatever the flags and however much the editor writes
\* (ide.py, dak_state and dak_links).
THEOREM LinkIsEarned == Spec => []LinkNeedsDak
<1>1. IInv => LinkNeedsDak
  BY DEF IInv, Saw, LinkNeedsDak
<1> QED
  BY <1>1, Invariance, PTL

\* Where nothing the call had to do without decides (AnswerWasTrue names the known
\* gaps), a definite answer was true at some moment of the call (ide.py, dak_state),
\* whatever the kernel inherited and whichever operation the editor performs meanwhile.
THEOREM AnswerIsTrue == Spec => []AnswerWasTrue
<1>1. IInv => AnswerWasTrue
  <2> SUFFICES ASSUME IInv, pc = "done", info.family, kernel.notebook, ~kernel.dak,
                      ~info.server, FlagsRead, writes <= 1, state # "unknown",
                      blurred \cap {"missed", "elsewhere"} = {}
               PROVE  state \in seen \/ ("update" \in blurred /\ state = "not-installed")
    BY DEF AnswerWasTrue
  <2>1. Telling
    BY DEF Telling
  <2>2. Ahead(disk) = state
    BY DEF Ahead
  <2> QED
    BY <2>1, <2>2 DEF IInv, Justified
<1> QED
  BY <1>1, Invariance, PTL

(***************************************************************************)
(* Extras                                                                  *)
(***************************************************************************)

\* A magic is gone, the extras' or the user's; another package's is never
\* replaced; the extras' own are remembered.
MagicOrigin == \A m \in Magic \ HalfLoaded :
    /\ magics[m] \in {"none", "auto", own[m]}
    /\ own[m] = "other" => magics[m] = "other"
    /\ magics[m] = "auto" => mine /\ m \in added

\* The same for explore_dataframe.
NameOrigin ==
    /\ name \in {"absent", "ours", ownName}
    /\ ownName = "user" => name = "user"
    /\ name = "ours" /\ ownName # "ours" => injected

\* Nothing is remembered while the extras are off.
OffIsForgotten == (mine => enable) /\ (injected => enable)

\* The inductive invariant of Extras.
Origins == ExtrasTypeOK /\ MagicOrigin /\ NameOrigin /\ OffIsForgotten

-----------------------------------------------------------------------------

\* An unloader takes away magics of the module's classes only, and which ones it
\* takes depends on the extension and on what else is loaded, not on who
\* registered them.
Removes(e, ld, m) == IF e = "ms" THEN m = "dpip" \/ "sql" \notin ld ELSE m \in Sql

\* What the unloaders leave under one name.
LEMMA UnloadedAt ==
    ASSUME NEW e \in Ext, NEW ld, NEW mg \in [Magic -> Owner], NEW m \in Magic
    PROVE  /\ Unloaded(e, mg, ld) \in [Magic -> Owner]
           /\ Unloaded(e, mg, ld)[m] =
                IF Removes(e, ld, m) /\ FromModule(mg[m]) THEN "none" ELSE mg[m]
<1> USE DEF Magic, Sql, Owner
<1>1. ASSUME NEW g \in [Magic -> Owner]
      PROVE  /\ SqlUnloaded(g) \in [Magic -> Owner]
             /\ SqlUnloaded(g)[m] = IF m \in Sql /\ FromModule(g[m]) THEN "none" ELSE g[m]
  BY DEF SqlUnloaded
<1>2. CASE e = "sql"
  BY <1>1, <1>2 DEF Unloaded, Removes
<1>3. CASE e = "ms"
  <2> DEFINE rest == IF FromModule(mg["dpip"]) THEN [mg EXCEPT !["dpip"] = "none"] ELSE mg
  <2>1. rest \in [Magic -> Owner]
    OBVIOUS
  <2>2. rest[m] = IF m = "dpip" /\ FromModule(mg[m]) THEN "none" ELSE mg[m]
    OBVIOUS
  <2>3. Unloaded(e, mg, ld) = IF "sql" \in ld THEN rest ELSE SqlUnloaded(rest)
    BY <1>3 DEF Unloaded, MsUnloaded
  <2> HIDE DEF rest
  <2>4. /\ SqlUnloaded(rest) \in [Magic -> Owner]
        /\ SqlUnloaded(rest)[m] =
             IF m \in Sql /\ FromModule(rest[m]) THEN "none" ELSE rest[m]
    BY <1>1, <2>1
  <2> QED
    BY <1>3, <2>1, <2>2, <2>3, <2>4 DEF Removes, FromModule
<1> QED
  BY <1>2, <1>3 DEF Ext

\* Registering magics replaces those of the same names and no others.
LEMMA RegisteredAt ==
    ASSUME NEW mg, NEW ms, NEW o, NEW m \in Magic
    PROVE  Registered(mg, ms, o)[m] = IF m \in ms THEN o ELSE mg[m]
BY DEF Registered

-----------------------------------------------------------------------------

\* Every initial state satisfies the inductive invariant.
LEMMA InitOrigins == ExtrasInit => Origins
BY DEF ExtrasInit, Origins, ExtrasTypeOK, MagicOrigin, NameOrigin, OffIsForgotten, Owner, Magic, Sql

\* Injecting into a free name, and remembering it.
LEMMA InjectStep ==
    ASSUME ExtrasTypeOK, NameOrigin, Inject, ownName' = ownName
    PROVE  /\ NameOrigin'
           /\ name' \in {"absent", "ours", "user"} /\ injected' \in BOOLEAN
BY DEF ExtrasTypeOK, NameOrigin, Inject

\* Withdrawing what was injected leaves the user's own value or none.
LEMMA WithdrawStep ==
    ASSUME ExtrasTypeOK, NameOrigin, Withdraw, ownName' = ownName
    PROVE  /\ NameOrigin' /\ injected' = FALSE
           /\ name' \in {"absent", "ours", "user"}
BY DEF ExtrasTypeOK, NameOrigin, Withdraw

\* Loading the extension touches free magics only, and remembers them, unless
\* its loader raises.
LEMMA LoadExtensionStep ==
    ASSUME ExtrasTypeOK, MagicOrigin, LoadExtension, own' = own, valid' = valid
    PROVE  /\ MagicOrigin'
           /\ magics' \in [Magic -> Owner] /\ loaded' \subseteq Ext
           /\ mine' \in BOOLEAN /\ added' \subseteq Magic
<1> USE DEF ExtrasTypeOK
<1>1. HalfLoaded' = HalfLoaded
  BY DEF HalfLoaded
<1>2. CASE mine \/ IsExtensionLoaded
  BY <1>1, <1>2 DEF LoadExtension, MagicOrigin
<1>3. CASE ~(mine \/ IsExtensionLoaded) /\ ~valid
  <2>1. magics' = Registered(magics, Registers("ms"), "auto")
        /\ UNCHANGED <<loaded, mine, added>>
    BY <1>3 DEF LoadExtension
  <2>2. Registers("ms") = {"dpip"} /\ HalfLoaded = {"dpip"}
    BY <1>3 DEF Registers, Provides, HalfLoaded, Magic, Sql
  <2>3. \A m \in Magic \ HalfLoaded : magics'[m] = magics[m]
    BY <2>1, <2>2, RegisteredAt
  <2>4. magics' \in [Magic -> Owner]
    BY <2>1 DEF Registered, Owner
  <2> QED
    BY <1>1, <2>1, <2>3, <2>4 DEF MagicOrigin
<1>4. CASE ~(mine \/ IsExtensionLoaded) /\ valid
  <2> DEFINE existing == Present(magics)
             reg == Registered(magics, Registers("ms"), "auto")
  <2>1. /\ magics' = [m \in Magic |-> IF m \in existing THEN magics[m] ELSE reg[m]]
        /\ loaded' = loaded \cup {"ms"} /\ mine' = TRUE
        /\ added' = Magic \ existing
    BY <1>4 DEF LoadExtension
  <2>2. Registers("ms") = Magic
    BY <1>4 DEF Registers, Provides
  <2>3. ASSUME NEW m \in Magic
        PROVE  \/ magics'[m] = magics[m] /\ magics[m] # "none"
               \/ magics'[m] = "auto" /\ magics[m] = "none" /\ m \in added'
    <3>1. reg[m] = "auto"
      BY <2>2, RegisteredAt
    <3>2. m \in existing <=> magics[m] # "none"
      BY DEF Present
    <3> QED
      BY <2>1, <3>1, <3>2
  <2>4. magics' \in [Magic -> Owner]
    <3>1. \A m \in Magic : magics'[m] \in Owner
      BY <2>3 DEF Owner
    <3> QED
      BY <2>1, <3>1
  <2>5. MagicOrigin'
    <3> SUFFICES ASSUME NEW m \in Magic, m \notin HalfLoaded
                 PROVE  /\ magics'[m] \in {"none", "auto", own[m]}
                        /\ own[m] = "other" => magics'[m] = "other"
                        /\ magics'[m] = "auto" => mine' /\ m \in added'
      BY <1>1 DEF MagicOrigin
    <3>1. /\ magics[m] \in {"none", "auto", own[m]}
          /\ own[m] = "other" => magics[m] = "other"
          /\ magics[m] = "auto" => mine
      BY DEF MagicOrigin
    <3> QED
      BY <1>4, <2>1, <2>3, <3>1
  <2> QED
    BY <2>1, <2>4, <2>5 DEF Ext
<1> QED
  BY <1>2, <1>3, <1>4

\* Unloading it leaves nothing the extras registered and nothing of another
\* package touched.
LEMMA UnloadExtensionStep ==
    ASSUME ExtrasTypeOK, MagicOrigin, UnloadExtension, own' = own, valid' = valid
    PROVE  /\ MagicOrigin' /\ mine' = FALSE
           /\ magics' \in [Magic -> Owner] /\ loaded' \subseteq Ext
           /\ added' \subseteq Magic
<1> USE DEF ExtrasTypeOK
<1>1. HalfLoaded' = HalfLoaded
  BY DEF HalfLoaded
<1>2. CASE ~mine
  BY <1>1, <1>2 DEF UnloadExtension, MagicOrigin
<1>3. CASE mine
  <2> DEFINE preserved == Present(magics) \ added
             left == IF "ms" \in loaded THEN MsUnloaded(magics, loaded) ELSE magics
  <2>1. /\ magics' = [m \in Magic |->
                        IF m \in preserved THEN magics[m]
                        ELSE IF m \in added /\ FromModule(left[m]) THEN "none" ELSE left[m]]
        /\ loaded' = loaded \ {"ms"} /\ mine' = FALSE /\ added' = {}
    BY <1>3 DEF UnloadExtension
  <2>2. ASSUME NEW m \in Magic
        PROVE  left[m] = magics[m] \/ (left[m] = "none" /\ FromModule(magics[m]))
    <3>1. MsUnloaded(magics, loaded) = Unloaded("ms", magics, loaded)
      BY DEF Unloaded
    <3>2. Unloaded("ms", magics, loaded)[m] \in {magics[m], "none"}
          /\ (Unloaded("ms", magics, loaded)[m] # magics[m] => FromModule(magics[m]))
      BY UnloadedAt DEF Ext
    <3> QED
      BY <3>1, <3>2
  <2> HIDE DEF left
  <2>3. ASSUME NEW m \in Magic
        PROVE  \/ magics'[m] = magics[m] /\ (m \in added => ~FromModule(magics[m]))
               \/ magics'[m] = "none" /\ (magics[m] = "none" \/ FromModule(magics[m]))
    <3>1. m \in preserved <=> magics[m] # "none" /\ m \notin added
      BY DEF Present
    <3> QED
      BY <2>1, <2>2, <3>1
  <2>4. magics' \in [Magic -> Owner]
    <3>1. \A m \in Magic : magics'[m] \in Owner
      BY <2>3 DEF Owner
    <3> QED
      BY <2>1, <3>1
  <2>5. MagicOrigin'
    <3> SUFFICES ASSUME NEW m \in Magic, m \notin HalfLoaded
                 PROVE  /\ magics'[m] \in {"none", "auto", own[m]}
                        /\ own[m] = "other" => magics'[m] = "other"
                        /\ magics'[m] # "auto"
      BY <1>1 DEF MagicOrigin
    <3>1. /\ magics[m] \in {"none", "auto", own[m]}
          /\ own[m] = "other" => magics[m] = "other"
          /\ magics[m] = "auto" => m \in added
      BY DEF MagicOrigin
    <3> QED
      BY <2>3, <3>1 DEF FromModule
  <2> QED
    BY <2>1, <2>4, <2>5
<1> QED
  BY <1>2, <1>3

\* Every step keeps the inductive invariant.
LEMMA StepOrigins == Origins /\ [ExtrasNext]_extrasVars => Origins'
<1> SUFFICES ASSUME Origins, [ExtrasNext]_extrasVars PROVE Origins'
  OBVIOUS
<1> USE DEF Origins
<1>a. ASSUME Load, own' = own, ownName' = ownName, valid' = valid, enable'
      PROVE  /\ MagicOrigin' /\ NameOrigin' /\ OffIsForgotten'
             /\ magics' \in [Magic -> Owner] /\ loaded' \subseteq Ext
             /\ mine' \in BOOLEAN /\ added' \subseteq Magic
             /\ name' \in {"absent", "ours", "user"} /\ injected' \in BOOLEAN
  BY <1>a, InjectStep, LoadExtensionStep DEF Load, OffIsForgotten
<1>1. CASE Import
  <2>1. CASE enable
    BY <1>1, <1>a, <2>1 DEF Import, shadow, ExtrasTypeOK
  <2>2. CASE ~enable
    BY <1>1, <2>2 DEF Import, shadow, ours, shell, ExtrasTypeOK, MagicOrigin, NameOrigin,
                      OffIsForgotten, HalfLoaded
  <2> QED
    BY <2>1, <2>2
<1>2. CASE Toggle
  <2>1. CASE ~enable
    <3>1. enable' = TRUE
      BY <1>2, <2>1 DEF Toggle, ExtrasTypeOK
    <3> QED
      BY <1>2, <1>a, <2>1, <3>1 DEF Toggle, shadow, ExtrasTypeOK
  <2>2. CASE enable
    <3>1. Withdraw /\ UnloadExtension /\ UNCHANGED <<imported, viz, valid, own, ownName>>
          /\ enable' \in BOOLEAN
      BY <1>2, <2>2 DEF Toggle, Unload, shadow, ExtrasTypeOK
    <3>2. NameOrigin' /\ injected' = FALSE /\ name' \in {"absent", "ours", "user"}
      BY <3>1, WithdrawStep
    <3>3. /\ MagicOrigin' /\ mine' = FALSE
          /\ magics' \in [Magic -> Owner] /\ loaded' \subseteq Ext /\ added' \subseteq Magic
      BY <3>1, UnloadExtensionStep
    <3> QED
      BY <3>1, <3>2, <3>3 DEF ExtrasTypeOK, OffIsForgotten
  <2> QED
    BY <2>1, <2>2
<1>3. ASSUME NEW e \in Ext, LoadExt(e) PROVE Origins'
  <2>1. /\ magics' = Registered(magics, Registers(e), e)
        /\ own' = Registered(own, Registers(e), e)
        /\ loaded' \subseteq Ext
        /\ UNCHANGED <<ours, name, ownName, viz, valid, imported, enable>>
    BY <1>3 DEF LoadExt, ExtrasTypeOK
  <2>2. e \in Owner \ {"auto", "other", "none"}
    BY DEF Ext, Owner
  <2>3. \A m \in Magic : \/ magics'[m] = e /\ own'[m] = e
                         \/ magics'[m] = magics[m] /\ own'[m] = own[m]
    BY <2>1, RegisteredAt
  <2>4. magics' \in [Magic -> Owner] /\ own' \in [Magic -> Owner \ {"auto"}]
    BY <2>1, <2>2 DEF Registered, ExtrasTypeOK
  <2>5. MagicOrigin'
    BY <2>1, <2>2, <2>3 DEF MagicOrigin, HalfLoaded, ours
  <2> QED
    BY <2>1, <2>4, <2>5 DEF ExtrasTypeOK, NameOrigin, OffIsForgotten, ours
<1>4. ASSUME NEW e \in Ext, UnloadExt(e) PROVE Origins'
  <2>1. /\ magics' = Unloaded(e, magics, loaded)
        /\ own' = Unloaded(e, own, loaded)
        /\ loaded' \subseteq Ext
        /\ UNCHANGED <<ours, name, ownName, viz, valid, imported, enable>>
    BY <1>4 DEF UnloadExt, ExtrasTypeOK
  <2>2. magics \in [Magic -> Owner] /\ own \in [Magic -> Owner]
    BY DEF ExtrasTypeOK
  <2>3. ASSUME NEW m \in Magic
        PROVE  /\ magics'[m] = IF Removes(e, loaded, m) /\ FromModule(magics[m])
                               THEN "none" ELSE magics[m]
               /\ own'[m] = IF Removes(e, loaded, m) /\ FromModule(own[m])
                            THEN "none" ELSE own[m]
    BY <2>1, <2>2, UnloadedAt
  <2>4. magics' \in [Magic -> Owner] /\ own' \in [Magic -> Owner]
    BY <2>1, <2>2, UnloadedAt DEF Magic
  <2>5. own' \in [Magic -> Owner \ {"auto"}]
    <3>1. \A m \in Magic : own'[m] # "auto"
      BY <2>3 DEF ExtrasTypeOK
    <3> QED
      BY <2>4, <3>1
  <2>6. MagicOrigin'
    <3> SUFFICES ASSUME NEW m \in Magic, m \notin HalfLoaded
                 PROVE  /\ magics'[m] \in {"none", "auto", own'[m]}
                        /\ own'[m] = "other" => magics'[m] = "other"
                        /\ magics'[m] = "auto" => mine /\ m \in added
      BY <2>1 DEF MagicOrigin, HalfLoaded, ours
    <3>1. /\ magics[m] \in {"none", "auto", own[m]}
          /\ own[m] = "other" => magics[m] = "other"
          /\ magics[m] = "auto" => mine /\ m \in added
      BY DEF MagicOrigin
    <3> QED
      BY <2>3, <3>1 DEF FromModule
  <2> QED
    BY <2>1, <2>4, <2>5, <2>6 DEF ExtrasTypeOK, NameOrigin, OffIsForgotten, ours
<1>5. ASSUME NEW ms \in {Sql, {"dpip"}}, Register(ms) PROVE Origins'
  <2>1. /\ magics' = Registered(magics, ms, "other")
        /\ own' = Registered(own, ms, "other")
        /\ UNCHANGED <<ours, loaded, name, ownName, viz, valid, imported, enable>>
    BY <1>5 DEF Register
  <2>2. \A m \in Magic : \/ magics'[m] = "other" /\ own'[m] = "other"
                         \/ magics'[m] = magics[m] /\ own'[m] = own[m]
    BY <2>1, RegisteredAt
  <2>3. magics' \in [Magic -> Owner] /\ own' \in [Magic -> Owner \ {"auto"}]
    BY <2>1 DEF Registered, ExtrasTypeOK, Owner
  <2>4. MagicOrigin'
    BY <2>1, <2>2 DEF MagicOrigin, HalfLoaded, ours
  <2> QED
    BY <2>1, <2>3, <2>4 DEF ExtrasTypeOK, NameOrigin, OffIsForgotten, ours
<1>6. ASSUME NEW v \in {"absent", "ours", "user"}, Assign(v) PROVE Origins'
  BY <1>6 DEF Assign, ours, ExtrasTypeOK, MagicOrigin, NameOrigin, OffIsForgotten, HalfLoaded
<1>7. CASE InstallViz
  BY <1>7 DEF InstallViz, ours, shell, shadow, ExtrasTypeOK, MagicOrigin, NameOrigin,
              OffIsForgotten, HalfLoaded
<1>8. CASE UNCHANGED extrasVars
  BY <1>8 DEF extrasVars, ours, shell, shadow, ExtrasTypeOK, MagicOrigin, NameOrigin,
              OffIsForgotten, HalfLoaded
<1> QED
  BY <1>1, <1>2, <1>3, <1>4, <1>5, <1>6, <1>7, <1>8 DEF ExtrasNext, UserStep

\* This invariant holds in every reachable state.
LEMMA OriginsInvariance == ExtrasSpec => []Origins
BY InitOrigins, StepOrigins, PTL DEF ExtrasSpec

-----------------------------------------------------------------------------

\* Type correctness of the shell's and the extras' variables.
THEOREM ExtrasTypeCorrect == ExtrasSpec => []ExtrasTypeOK
<1>1. Origins => ExtrasTypeOK
  BY DEF Origins
<1> QED
  BY <1>1, OriginsInvariance, PTL

\* However often the extras are loaded and unloaded, and whatever %load_ext,
\* %unload_ext and assignments come in between, a magic of another package and a
\* value the user gave explore_dataframe survive (_ipython.py).
THEOREM ForeignSafe == ExtrasSpec => []ForeignSurvives
<1>1. Origins => ForeignSurvives
  BY DEF Origins, MagicOrigin, NameOrigin, ForeignSurvives
<1> QED
  BY <1>1, OriginsInvariance, PTL

\* Switched off, the extras have left nothing of theirs in the shell.
THEOREM NothingLeft == ExtrasSpec => []DisabledLeavesNothing
<1>1. Origins => DisabledLeavesNothing
  BY DEF Origins, ExtrasTypeOK, MagicOrigin, NameOrigin, OffIsForgotten, DisabledLeavesNothing
<1> QED
  BY <1>1, OriginsInvariance, PTL

(***************************************************************************)
(* SparkSqlCell                                                            *)
(***************************************************************************)

\* The smallest of a set of natural numbers.
LEMMA SmallestOfNats ==
    ASSUME NEW S, S \subseteq Nat, S # {}
    PROVE  Min(S) \in S /\ \A y \in S : Min(S) <= y
<1> DEFINE Less == {p \in Nat \X Nat : p[1] < p[2]}
<1>a. IsWellFoundedOn(Less, Nat)
  BY NatLessThanWellFounded, Zenon DEF OpToRel
<1>b. \A x, y \in Nat : y < x => <<y, x>> \in Less
  OBVIOUS
<1> HIDE DEF Less
<1>1. PICK x \in S : \A y \in S : ~ (<<y, x>> \in Less)
  BY <1>a, WFMin
<1>2. ASSUME NEW y \in S PROVE x <= y
  <2>1. x \in Nat /\ y \in Nat
    OBVIOUS
  <2>2. ~ (y < x)
    BY <1>1, <1>b, <2>1
  <2> QED
    BY <2>1, <2>2
<1>3. \E m \in S : \A y \in S : m =< y
  BY <1>2
<1> QED
  BY <1>3 DEF Min

\* The largest of a set of natural numbers that has a bound.
LEMMA LargestOfNats ==
    ASSUME NEW S, S \subseteq Nat, S # {}, NEW n \in Nat, \A x \in S : x <= n
    PROVE  Max(S) \in S /\ \A y \in S : Max(S) >= y
<1> DEFINE R == {n - x : x \in S}
<1>1. R \subseteq Nat /\ R # {}
  OBVIOUS
<1>2. PICK d \in R : \A e \in R : d <= e
  BY <1>1, SmallestOfNats
<1>3. PICK m \in S : d = n - m
  BY <1>2
<1>4. ASSUME NEW y \in S PROVE m >= y
  <2>1. d <= n - y
    BY <1>2
  <2>2. m \in Nat /\ y \in Nat
    OBVIOUS
  <2> QED
    BY <1>3, <2>1, <2>2
<1>5. \E x \in S : \A y \in S : x >= y
  BY <1>4
<1> QED
  BY <1>5 DEF Max

\* InOrder enumerates its set, upwards.
LEMMA InOrderEnumerates ==
    ASSUME NEW S, S \subseteq Nat, IsFiniteSet(S)
    PROVE  /\ Cardinality(S) \in Nat
           /\ DOMAIN InOrder(S) = 1..Cardinality(S)
           /\ \A k \in 1..Cardinality(S) : InOrder(S)[k] \in S
           /\ \A x \in S : \E k \in 1..Cardinality(S) : InOrder(S)[k] = x
           /\ \A j, k \in 1..Cardinality(S) : j < k => InOrder(S)[j] < InOrder(S)[k]
<1> DEFINE n == Cardinality(S)
           Below(x) == {y \in S : y < x}
           r == [x \in S |-> Cardinality(Below(x)) + 1]
<1>1. n \in Nat
  BY FS_CardinalityType
<1>2. ASSUME NEW x \in S, NEW T, T = Below(x)
      PROVE  IsFiniteSet(T) /\ Cardinality(T) \in Nat /\ Cardinality(T) < n
  <2>1. T \in SUBSET S /\ S # T
    <3>1. x \notin T
      BY <1>2
    <3> QED
      BY <1>2, <3>1
  <2>2. /\ IsFiniteSet(T) /\ Cardinality(T) <= n
        /\ Cardinality(S) = Cardinality(T) => S = T
    BY <2>1, FS_Subset
  <2>3. Cardinality(T) \in Nat
    BY <2>2, FS_CardinalityType
  <2> QED
    BY <1>1, <2>1, <2>2, <2>3
<1>3. ASSUME NEW x \in S, NEW y \in S, x < y
      PROVE  Cardinality(Below(x)) < Cardinality(Below(y))
  <2> DEFINE A == Below(x)
             B == Below(y)
  <2>1. /\ IsFiniteSet(A) /\ IsFiniteSet(B)
        /\ Cardinality(A) \in Nat /\ Cardinality(B) \in Nat
    BY <1>2
  <2>2. x \in B /\ x \notin A /\ A \in SUBSET B
    <3>1. x \in Nat /\ y \in Nat /\ \A z \in S : z \in Nat
      OBVIOUS
    <3>2. x \in B /\ x \notin A
      BY <1>3, <3>1
    <3>3. \A z \in A : z \in B
      BY <1>3, <3>1
    <3> HIDE DEF A, B
    <3> QED
      BY <3>2, <3>3
  <2> HIDE DEF A, B
  <2>3. Cardinality(A) <= Cardinality(B) /\ (Cardinality(B) = Cardinality(A) => B = A)
    BY <2>1, <2>2, FS_Subset
  <2>4. Cardinality(A) < Cardinality(B)
    BY <2>1, <2>2, <2>3
  <2> QED
    BY <2>4 DEF A, B
<1>4. r \in [S -> 1..n] /\ \A x \in S : r[x] = Cardinality(Below(x)) + 1
  <2>1. ASSUME NEW x \in S PROVE Cardinality(Below(x)) + 1 \in 1..n
    <3> DEFINE T == Below(x)
    <3>1. Cardinality(T) \in Nat /\ Cardinality(T) < n
      BY <1>2
    <3> QED
      BY <1>1, <3>1
  <2> QED
    BY <2>1
<1>5. \A x, y \in S : r[x] = r[y] => x = y
  <2> SUFFICES ASSUME NEW x \in S, NEW y \in S, r[x] = r[y], x # y PROVE FALSE
    OBVIOUS
  <2>1. /\ Cardinality(Below(x)) + 1 = Cardinality(Below(y)) + 1
        /\ Cardinality(Below(x)) \in Nat /\ Cardinality(Below(y)) \in Nat
    BY <1>4, <1>2
  <2>2. x \in Nat /\ y \in Nat /\ (x < y \/ y < x)
    OBVIOUS
  <2>3. /\ x < y => Cardinality(Below(x)) < Cardinality(Below(y))
        /\ y < x => Cardinality(Below(y)) < Cardinality(Below(x))
    BY <1>3
  <2> HIDE DEF Below
  <2> QED
    BY <2>1, <2>2, <2>3
<1> HIDE DEF r
<1>6. r \in Injection(S, 1..n)
  BY <1>4, <1>5 DEF Injection, IsInjective
<1>7. IsFiniteSet(1..n) /\ Cardinality(1..n) = n
  BY <1>1, FS_Interval
<1>8. r \in Surjection(S, 1..n)
  BY <1>6, <1>7, FS_Injection
<1>9. ASSUME NEW k \in 1..n
      PROVE  /\ InOrder(S)[k] \in S /\ r[InOrder(S)[k]] = k
             /\ \A x \in S : r[x] = k => InOrder(S)[k] = x
  <2>1. PICK x \in S : r[x] = k
    BY <1>8 DEF Surjection
  <2>2. Cardinality(Below(x)) = k - 1
    BY <1>2, <1>4, <2>1
  <2>3. InOrder(S)[k] = CHOOSE z \in S : Cardinality({y \in S : y < z}) = k - 1
    BY <1>9 DEF InOrder
  <2>4. InOrder(S)[k] \in S /\ Cardinality(Below(InOrder(S)[k])) = k - 1
    BY <2>2, <2>3
  <2> DEFINE o == InOrder(S)[k]
  <2>5. r[o] = k
    <3>1. o \in S /\ Cardinality(Below(o)) = k - 1
      BY <2>4
    <3> HIDE DEF o, Below
    <3> QED
      BY <1>4, <3>1
  <2> QED
    BY <1>5, <2>4, <2>5
<1>10. \A x \in S : r[x] \in 1..n
  BY <1>4
<1>11. ASSUME NEW j \in 1..n, NEW k \in 1..n, j < k PROVE InOrder(S)[j] < InOrder(S)[k]
  <2> DEFINE x == InOrder(S)[j]
             y == InOrder(S)[k]
  <2>1. x \in S /\ y \in S /\ r[x] = j /\ r[y] = k
    BY <1>9
  <2> HIDE DEF x, y
  <2>2. j = Cardinality(Below(x)) + 1 /\ k = Cardinality(Below(y)) + 1
    BY <1>4, <2>1
  <2>3. Cardinality(Below(x)) \in Nat /\ Cardinality(Below(y)) \in Nat
    BY <1>2, <2>1
  <2>4. y < x => Cardinality(Below(y)) < Cardinality(Below(x))
    BY <1>3, <2>1
  <2>5. ~ (y < x) /\ x # y
    <3> HIDE DEF Below
    <3> QED
      BY <1>11, <2>1, <2>2, <2>3, <2>4
  <2>6. x \in Nat /\ y \in Nat
    BY <2>1
  <2>7. x < y
    BY <2>5, <2>6
  <2> QED
    BY <2>7 DEF x, y
<1> QED
  BY <1>1, <1>9, <1>10, <1>11 DEF InOrder

\* Texts: sequences of the tokens of an option line and of a cell.
Token == LineTok \cup SqlTok
Text == Seq(Token)

\* The code of a text.
LEMMA CodeIs ==
    ASSUME NEW s \in Text
    PROVE  /\ Len(s) \in Nat
           /\ \A i \in 1..Len(s) : s[i] \in Token
           /\ \A i : i \in Code(s) <=>
                     i \in 1..Len(s) /\ s[i] \notin {"ws", "cm", "semi"}
<1>1. Len(s) \in Nat /\ \A i \in 1..Len(s) : s[i] \in Token
  BY DEF Text
<1> QED
  BY <1>1 DEF Code, IsCode

\* A statement is a part of its piece, and all code of the piece is in it.
LEMMA StatementIs ==
    ASSUME NEW s \in Text, NEW a \in Nat \ {0}, NEW b \in 0..Len(s), Code(s) \cap (a..b) # {}
    PROVE  LET st == MakeStatement(s, a, b)
           IN /\ st = [off |-> st.off, toks |-> st.toks]
              /\ st.off \in a..b /\ st.toks \in Text
              /\ st.off + Len(st.toks) - 1 <= b
              /\ \A p \in 1..Len(st.toks) : st.toks[p] = s[st.off + p - 1]
              /\ \A i \in Code(s) \cap (a..b) : st.off <= i /\ i <= st.off + Len(st.toks) - 1
<1> DEFINE K == {i \in a..b : s[i] # "ws"}
           C == Code(s) \cap (a..b)
           first == Min(K)
           last == Max(C)
           toks == SubSeq(s, first, last)
<1>1. /\ Len(s) \in Nat /\ b \in Nat /\ b <= Len(s)
      /\ \A i \in 1..Len(s) : s[i] \in Token
      /\ \A i : i \in Code(s) <=> i \in 1..Len(s) /\ s[i] \notin {"ws", "cm", "semi"}
  <2>1. /\ Len(s) \in Nat /\ \A i \in 1..Len(s) : s[i] \in Token
        /\ \A i : i \in Code(s) <=> i \in 1..Len(s) /\ s[i] \notin {"ws", "cm", "semi"}
    BY CodeIs
  <2> QED
    BY <2>1
<1>2. C \subseteq Nat /\ C # {} /\ (\A i \in C : i <= b) /\ (\A i \in C : i \in K)
  BY <1>1
<1>3. K \subseteq Nat /\ K # {} /\ \A i \in K : i \in a..b
  BY <1>1, <1>2
<1>4. first \in K /\ \A i \in K : first <= i
  <2> HIDE DEF K
  <2> QED
    BY <1>3, SmallestOfNats
<1>5. last \in C /\ \A i \in C : last >= i
  <2> HIDE DEF C
  <2> QED
    BY <1>1, <1>2, LargestOfNats
<1> DEFINE st == MakeStatement(s, a, b)
<1>6. st = [off |-> first, toks |-> toks]
  BY DEF MakeStatement
<1> HIDE DEF first, last, K, C, st
<1>7. /\ first \in Nat /\ last \in Nat /\ a <= first /\ first <= last /\ last <= b
      /\ first \in a..b
  BY <1>1, <1>2, <1>3, <1>4, <1>5
<1>8. \A i \in first..last : s[i] \in Token
  BY <1>1, <1>7
<1>9. /\ toks \in Seq(Token)
      /\ Len(toks) = IF first <= last THEN last - first + 1 ELSE 0
      /\ \A i \in 1..(last - first + 1) : toks[i] = s[first + i - 1]
  <2>1. first \in Int /\ last \in Int
    BY <1>7
  <2> QED
    BY <1>8, <2>1, SubSeqProperties
<1> HIDE DEF toks
<1>10. Len(toks) = last - first + 1
  BY <1>7, <1>9
<1>11. st.off = first /\ st.toks = toks /\ st = [off |-> st.off, toks |-> st.toks]
  BY <1>6
<1>12. \A p \in 1..Len(toks) : toks[p] = s[first + p - 1]
  BY <1>9, <1>10
<1>13. first + Len(toks) - 1 = last
  BY <1>7, <1>10
<1>14. \A i \in C : first <= i /\ i <= last
  BY <1>2, <1>4, <1>5
<1>15. /\ st = [off |-> st.off, toks |-> st.toks]
       /\ st.off \in a..b /\ st.toks \in Text
       /\ st.off + Len(st.toks) - 1 <= b
       /\ \A p \in 1..Len(st.toks) : st.toks[p] = s[st.off + p - 1]
       /\ \A i \in C : st.off <= i /\ i <= st.off + Len(st.toks) - 1
  BY <1>7, <1>9, <1>11, <1>12, <1>13, <1>14 DEF Text
<1> QED
  BY <1>15 DEF st, C

\* Where pieces end: at the end of the text, and never at code before that.
LEMMA EndsAre ==
    ASSUME NEW s \in Text
    PROVE  /\ Ends(s) \subseteq 0..Len(s) /\ Len(s) \in Ends(s)
           /\ \A i \in Code(s) : i \in Ends(s) => i = Len(s)
<1>1. /\ Len(s) \in Nat
      /\ \A i : i \in Code(s) <=> i \in 1..Len(s) /\ s[i] \notin {"ws", "cm", "semi"}
  BY CodeIs
<1>2. CASE Ends(s) = {Len(s)}
  BY <1>1, <1>2
<1>3. CASE Ends(s) = {Len(s)} \cup {i \in 1..Len(s) : s[i] = "semi"}
  BY <1>1, <1>3
<1> QED
  BY <1>2, <1>3 DEF Ends

\* A piece begins after every end before its own.
LEMMA PieceIs ==
    ASSUME NEW s \in Text, NEW e \in Ends(s)
    PROVE  \E a \in Nat \ {0} : /\ Piece(s, e) = a..e
                                /\ a - 1 \in {0} \cup {i \in Ends(s) : i < e}
<1> DEFINE B == {0} \cup {i \in Ends(s) : i < e}
<1>1. Len(s) \in Nat /\ Ends(s) \subseteq 0..Len(s)
  BY CodeIs, EndsAre
<1>2. B \subseteq Nat /\ B # {} /\ \A i \in B : i <= Len(s)
  BY <1>1
<1>3. Piece(s, e) = (Max(B) + 1)..e
  BY DEF Piece
<1> HIDE DEF B
<1>4. Max(B) \in B
  BY <1>1, <1>2, LargestOfNats
<1>5. Max(B) \in Nat
  BY <1>2, <1>4
<1> DEFINE a == Max(B) + 1
<1>6. a \in Nat \ {0} /\ a - 1 \in B /\ Piece(s, e) = a..e
  BY <1>3, <1>4, <1>5
<1> HIDE DEF a
<1> QED
  BY <1>6 DEF B

\* Where the pieces with code end.
CodeEnds(s) == {e \in Ends(s) : Code(s) \cap Piece(s, e) # {}}

\* The k-th statement is made of the k-th piece with code.
LEMMA StatementsAre ==
    ASSUME NEW s \in Text
    PROVE  LET st == SplitStatements(s)
               o == InOrder(CodeEnds(s))
               n == Cardinality(CodeEnds(s))
           IN /\ n \in Nat /\ Len(st) = n /\ st = [k \in 1..n |-> st[k]]
              /\ \A k \in 1..n : o[k] \in CodeEnds(s)
              /\ \A x \in CodeEnds(s) : \E k \in 1..n : o[k] = x
              /\ \A j, k \in 1..n : j < k => o[j] < o[k]
              /\ \A k \in 1..n : \E a \in Nat \ {0} :
                    /\ Piece(s, o[k]) = a..o[k]
                    /\ a - 1 \in {0} \cup {i \in Ends(s) : i < o[k]}
                    /\ Code(s) \cap (a..o[k]) # {} /\ st[k] = MakeStatement(s, a, o[k])
                    /\ st[k].off \in a..o[k] /\ st[k].toks \in Text
                    /\ o[k] \in 0..Len(s)
                    /\ st[k].off + Len(st[k].toks) - 1 <= o[k]
                    /\ \A p \in 1..Len(st[k].toks) : st[k].toks[p] = s[st[k].off + p - 1]
                    /\ \A i \in Code(s) \cap (a..o[k]) :
                          st[k].off <= i /\ i <= st[k].off + Len(st[k].toks) - 1
<1> DEFINE F == CodeEnds(s)
           n == Cardinality(F)
           o == InOrder(F)
           st == SplitStatements(s)
<1>1. /\ Len(s) \in Nat /\ Ends(s) \subseteq 0..Len(s) /\ Len(s) \in Ends(s)
      /\ \A i \in Code(s) : i \in 1..Len(s) /\ (i \in Ends(s) => i = Len(s))
  BY CodeIs, EndsAre
<1>2. F \subseteq Nat /\ IsFiniteSet(F)
  <2>1. F \in SUBSET Nat /\ \A e \in F : e <= Len(s)
    BY <1>1 DEF CodeEnds
  <2> HIDE DEF F
  <2> QED
    BY <1>1, <2>1, FS_BoundedSetOfNaturals
<1>3. st = [k \in 1..Len(o) |-> MakeStatement(s, Min(Piece(s, o[k])), o[k])]
  BY DEF SplitStatements, CodeEnds
<1> HIDE DEF F
<1>4. /\ n \in Nat /\ DOMAIN o = 1..n
      /\ \A k \in 1..n : o[k] \in F
      /\ \A x \in F : \E k \in 1..n : o[k] = x
      /\ \A j, k \in 1..n : j < k => o[j] < o[k]
  BY <1>2, InOrderEnumerates
<1>5. Len(o) = n
  <2> DEFINE kth(k) == CHOOSE x \in F : Cardinality({y \in F : y < x}) = k - 1
  <2>0. o = [k \in 1..n |-> kth(k)]
    BY DEF InOrder
  <2> HIDE DEF o, n, kth
  <2>1. o = [k \in 1..n |-> o[k]]
    BY <2>0
  <2> HIDE DEF o, n
  <2> QED
    BY <1>4, <2>1
<1> HIDE DEF o, n, st
<1>6. st = [k \in 1..n |-> MakeStatement(s, Min(Piece(s, o[k])), o[k])]
  BY <1>3, <1>5
<1>7. Len(st) = n /\ st = [k \in 1..Len(st) |-> st[k]]
  BY <1>4, <1>6
<1>8. ASSUME NEW k \in 1..n
      PROVE  \E a \in Nat \ {0} :
                /\ Piece(s, o[k]) = a..o[k]
                /\ a - 1 \in {0} \cup {i \in Ends(s) : i < o[k]}
                /\ Code(s) \cap (a..o[k]) # {} /\ st[k] = MakeStatement(s, a, o[k])
                /\ st[k].off \in a..o[k] /\ st[k].toks \in Text
                /\ o[k] \in 0..Len(s)
                /\ st[k].off + Len(st[k].toks) - 1 <= o[k]
                /\ \A p \in 1..Len(st[k].toks) : st[k].toks[p] = s[st[k].off + p - 1]
                /\ \A i \in Code(s) \cap (a..o[k]) :
                      st[k].off <= i /\ i <= st[k].off + Len(st[k].toks) - 1
  <2> DEFINE e == o[k]
  <2>1. e \in Ends(s) /\ e \in 0..Len(s) /\ Code(s) \cap Piece(s, e) # {}
    BY <1>1, <1>4, <1>8 DEF F, CodeEnds
  <2>2. st[k] = MakeStatement(s, Min(Piece(s, e)), e)
    BY <1>6, <1>8
  <2> HIDE DEF e
  <2>3. PICK a \in Nat \ {0} : /\ Piece(s, e) = a..e
                               /\ a - 1 \in {0} \cup {i \in Ends(s) : i < e}
    BY <2>1, PieceIs
  <2>4. Min(Piece(s, e)) = a
    <3>1. a <= e /\ a \in a..e /\ a..e # {} /\ a..e \subseteq Nat
      BY <2>1, <2>3
    <3>2. Min(a..e) \in a..e /\ Min(a..e) <= a
      BY <3>1, SmallestOfNats
    <3> QED
      BY <2>1, <2>3, <3>1, <3>2
  <2>5. Code(s) \cap (a..e) # {}
    BY <2>1, <2>3
  <2> DEFINE t == MakeStatement(s, a, e)
  <2>6. /\ t.off \in a..e /\ t.toks \in Text
        /\ t.off + Len(t.toks) - 1 <= e
        /\ \A p \in 1..Len(t.toks) : t.toks[p] = s[t.off + p - 1]
        /\ \A i \in Code(s) \cap (a..e) : t.off <= i /\ i <= t.off + Len(t.toks) - 1
    BY <2>1, <2>5, StatementIs
  <2>7. st[k] = t
    BY <2>2, <2>4
  <2>8. st[k] = MakeStatement(s, a, e)
    BY <2>2, <2>4
  <2> HIDE DEF t
  <2> QED
    BY <2>1, <2>3, <2>5, <2>6, <2>7, <2>8 DEF e
<1> QED
  BY <1>4, <1>7, <1>8 DEF F, n, o, st

\* The statements of a text are parts of it, and a stretch of code is in one of them.
LEMMA SplitIs ==
    ASSUME NEW s \in Text
    PROVE  LET st == SplitStatements(s)
           IN /\ Len(st) \in Nat /\ st = [k \in 1..Len(st) |-> st[k]]
              /\ \A k \in 1..Len(st) :
                    /\ st[k].off \in 1..Len(s) /\ st[k].toks \in Text
                    /\ st[k].off + Len(st[k].toks) - 1 <= Len(s)
                    /\ \A p \in 1..Len(st[k].toks) : st[k].toks[p] = s[st[k].off + p - 1]
              /\ \A i, j \in Nat : i <= j /\ i..j \subseteq Code(s) =>
                    \E k \in 1..Len(st) :
                        st[k].off <= i /\ j <= st[k].off + Len(st[k].toks) - 1
<1> DEFINE F == CodeEnds(s)
           n == Cardinality(F)
           o == InOrder(F)
           st == SplitStatements(s)
<1>1. /\ Len(s) \in Nat /\ Ends(s) \subseteq 0..Len(s) /\ Len(s) \in Ends(s)
      /\ \A i \in Code(s) : i \in 1..Len(s) /\ (i \in Ends(s) => i = Len(s))
  BY CodeIs, EndsAre
<1>2. /\ n \in Nat /\ Len(st) = n /\ st = [k \in 1..Len(st) |-> st[k]]
      /\ \A x \in F : \E k \in 1..n : o[k] = x
  BY StatementsAre
<1>3. ASSUME NEW k \in 1..n
      PROVE  \E a \in Nat \ {0} :
                /\ Piece(s, o[k]) = a..o[k]
                /\ st[k].off \in a..o[k] /\ st[k].toks \in Text
                /\ o[k] \in 0..Len(s)
                /\ st[k].off + Len(st[k].toks) - 1 <= o[k]
                /\ \A p \in 1..Len(st[k].toks) : st[k].toks[p] = s[st[k].off + p - 1]
                /\ \A i \in Code(s) \cap (a..o[k]) :
                      st[k].off <= i /\ i <= st[k].off + Len(st[k].toks) - 1
  BY StatementsAre
<1> HIDE DEF F, o, n, st
<1>4. ASSUME NEW k \in 1..n
      PROVE  /\ st[k].off \in 1..Len(s) /\ st[k].toks \in Text
             /\ st[k].off + Len(st[k].toks) - 1 <= Len(s)
             /\ \A p \in 1..Len(st[k].toks) : st[k].toks[p] = s[st[k].off + p - 1]
  <2>1. PICK a \in Nat \ {0} :
                /\ st[k].off \in a..o[k] /\ st[k].toks \in Text
                /\ o[k] \in 0..Len(s)
                /\ st[k].off + Len(st[k].toks) - 1 <= o[k]
                /\ \A p \in 1..Len(st[k].toks) : st[k].toks[p] = s[st[k].off + p - 1]
    BY <1>3
  <2>2. Len(st[k].toks) \in Nat
    BY <2>1, CodeIs
  <2> QED
    BY <1>1, <2>1, <2>2
<1>5. ASSUME NEW i \in Nat, NEW j \in Nat, i <= j, i..j \subseteq Code(s)
      PROVE  \E k \in 1..n : st[k].off <= i /\ j <= st[k].off + Len(st[k].toks) - 1
  <2> DEFINE L == {f \in Ends(s) : f >= j}
  <2>1. L \subseteq Nat /\ L # {} /\ i \in Code(s) /\ j \in Code(s)
    BY <1>1, <1>5
  <2> DEFINE e == Min(L)
  <2>2. e \in L /\ \A f \in L : e <= f
    <3> HIDE DEF L
    <3> QED
      BY <2>1, SmallestOfNats
  <2> HIDE DEF e
  <2>3. e \in Ends(s) /\ e >= j /\ e \in Nat /\ e <= Len(s)
    BY <1>1, <2>2
  <2>4. \A f \in Ends(s) : f < e => f < i
    <3> SUFFICES ASSUME NEW f \in Ends(s), f < e, ~ (f < i) PROVE FALSE
      OBVIOUS
    <3>1. f \in Nat /\ i <= f
      BY <1>1
    <3>2. f < j
      BY <2>2, <2>3, <3>1
    <3>3. f \in Code(s)
      BY <1>5, <3>1, <3>2
    <3> QED
      BY <1>1, <2>3, <3>3
  <2>5. PICK a \in Nat \ {0} : /\ Piece(s, e) = a..e
                               /\ a - 1 \in {0} \cup {f \in Ends(s) : f < e}
    BY <2>3, PieceIs
  <2>6. a <= i
    BY <1>1, <2>1, <2>4, <2>5
  <2>7. i \in a..e /\ j \in a..e
    BY <1>5, <2>3, <2>6
  <2>8. e \in F
    BY <2>1, <2>3, <2>5, <2>7 DEF F, CodeEnds
  <2>9. PICK k \in 1..n : o[k] = e
    BY <1>2, <2>8
  <2>10. PICK b \in Nat \ {0} :
                /\ Piece(s, e) = b..e
                /\ \A x \in Code(s) \cap (b..e) :
                      st[k].off <= x /\ x <= st[k].off + Len(st[k].toks) - 1
    BY <1>3, <2>9
  <2>11. i \in b..e /\ j \in b..e
    BY <2>5, <2>7, <2>10
  <2> QED
    BY <2>1, <2>10, <2>11
<1>6. /\ Len(st) \in Nat /\ st = [k \in 1..Len(st) |-> st[k]]
      /\ \A k \in 1..Len(st) :
            /\ st[k].off \in 1..Len(s) /\ st[k].toks \in Text
            /\ st[k].off + Len(st[k].toks) - 1 <= Len(s)
            /\ \A p \in 1..Len(st[k].toks) : st[k].toks[p] = s[st[k].off + p - 1]
      /\ \A i, j \in Nat : i <= j /\ i..j \subseteq Code(s) =>
            \E k \in 1..Len(st) :
                st[k].off <= i /\ j <= st[k].off + Len(st[k].toks) - 1
  BY <1>2, <1>4, <1>5
<1> QED
  BY <1>6 DEF st

\* What a scan of the options can give.
Scanned(line) == [set : SUBSET OptTok, args : Nat, rest : 1..(Len(line) + 1), ok : BOOLEAN]

\* One token of the scan.
LEMMA ScanTokenType ==
    ASSUME NEW line \in Text, NEW lineForm \in BOOLEAN, NEW i \in 1..Len(line),
           NEW next \in Scanned(line), NEW later \in Scanned(line)
    PROVE  ScanToken(line, lineForm, i, next, later) \in Scanned(line)
<1> DEFINE t == line[i]
           Adds(r) == [r EXCEPT !.set = r.set \cup {t}]
           one == [set |-> {}, args |-> 0, rest |-> i, ok |-> TRUE]
           two == [next EXCEPT !.args = next.args + 1,
                               !.ok = next.ok /\ IsIdent(t) /\ next.args = 0]
           three == IF i < Len(line) /\ line[i + 1] = "mode" THEN later ELSE next
           four == [Adds(later) EXCEPT !.ok = Adds(later).ok /\ i < Len(line)
                                              /\ (\/ t \in later.set
                                                  \/ IsIdent(line[i + 1]))]
           five == [next EXCEPT !.ok = FALSE]
<1>1. ASSUME NEW r \in Scanned(line), t \in OptTok PROVE Adds(r) \in Scanned(line)
  <2> DEFINE v == r.set \cup {t}
  <2>1. v \in SUBSET OptTok
    BY <1>1 DEF Scanned
  <2> HIDE DEF v, t
  <2>2. [r EXCEPT !.set = v] \in Scanned(line)
    BY <2>1 DEF Scanned
  <2> QED
    BY <2>2 DEF v
<1>2. one \in Scanned(line)
  <2> DEFINE v == {}
  <2>1. v \in SUBSET OptTok
    OBVIOUS
  <2>2. i \in 1..(Len(line) + 1)
    BY CodeIs
  <2> HIDE DEF v
  <2>3. [set |-> v, args |-> 0, rest |-> i, ok |-> TRUE] \in Scanned(line)
    BY <2>1, <2>2 DEF Scanned
  <2> QED
    BY <2>3 DEF v
<1>3. two \in Scanned(line)
  <2> DEFINE a == next.args + 1
             b == next.ok /\ IsIdent(t) /\ next.args = 0
  <2>1. a \in Nat /\ b \in BOOLEAN
    BY DEF Scanned
  <2> HIDE DEF a, b
  <2>2. [next EXCEPT !.args = a, !.ok = b] \in Scanned(line)
    BY <2>1 DEF Scanned
  <2> QED
    BY <2>2 DEF a, b
<1>4. three \in Scanned(line)
  OBVIOUS
<1>5. ASSUME t \in OptTok PROVE four \in Scanned(line)
  <2> DEFINE r == Adds(later)
             b == r.ok /\ i < Len(line) /\ (t \in later.set \/ IsIdent(line[i + 1]))
  <2>1. r \in Scanned(line)
    BY <1>1, <1>5
  <2>2. b \in BOOLEAN
    OBVIOUS
  <2> HIDE DEF r, b
  <2>3. [r EXCEPT !.ok = b] \in Scanned(line)
    BY <2>1, <2>2 DEF Scanned
  <2> QED
    BY <2>3 DEF r, b
<1>6. five \in Scanned(line)
  BY DEF Scanned
<1> HIDE DEF one, three, five
<1>7. /\ ScanToken(line, lineForm, i, next, later) =
            (CASE t \notin OptTok /\ lineForm -> one
               [] t \notin OptTok /\ ~lineForm -> two
               [] t = "--explain" -> Adds(three)
               [] t \in {"-s", "-v"} -> four
               [] t = "-?" -> five
               [] OTHER -> Adds(next))
  BY DEF ScanToken, one, three, five
<1> HIDE DEF two, four
<1>8. CASE t \notin OptTok
  BY <1>2, <1>3, <1>7, <1>8 DEF OptTok
<1>9. CASE t \in OptTok
  <2>1. four \in Scanned(line) /\ Adds(three) \in Scanned(line) /\ Adds(next) \in Scanned(line)
    BY <1>1, <1>4, <1>5, <1>9
  <2> HIDE DEF Adds
  <2> QED
    BY <1>6, <1>7, <1>9, <2>1
<1> QED
  BY <1>8, <1>9

\* g gives the scan of a line of n tokens.
IsScan(g, n, line, lineForm) ==
    g = [i \in 1..(n + 2) |->
            IF i > n THEN [set |-> {}, args |-> 0, rest |-> n + 1, ok |-> i = n + 1]
            ELSE ScanToken(line, lineForm, i, g[i + 1], g[i + 2])]

\* The scan of a line exists: the value at a token is given by those at the next
\* two, so it is built from the end of the line.
LEMMA ScanExists ==
    ASSUME NEW n \in Nat, NEW line, NEW lineForm
    PROVE  \E g : IsScan(g, n, line, lineForm)
<1> DEFINE AtEnd(i) == [set |-> {}, args |-> 0, rest |-> n + 1, ok |-> i = n + 1]
           Step(i, x, y) == ScanToken(line, lineForm, i, x, y)
<1>0. SUFFICES \E g : g = [i \in 1..(n + 2) |->
                              IF i > n THEN AtEnd(i) ELSE Step(i, g[i + 1], g[i + 2])]
  BY DEF IsScan
<1> HIDE DEF AtEnd, Step
<1> DEFINE D(m) == {i \in 1..(n + 2) : i + m >= n + 2}
           Body(g, i) == IF i > n THEN AtEnd(i) ELSE Step(i, g[i + 1], g[i + 2])
           G(m) == \E g : g = [i \in D(m) |-> Body(g, i)]
           C == {m \in Nat : ~ G(m)}
<1>1. ASSUME C # {} PROVE FALSE
  <2>1. C \subseteq Nat
    OBVIOUS
  <2>2. PICK m \in C : \A k \in C : m <= k
    <3> HIDE DEF C
    <3> QED
      BY <1>1, <2>1, SmallestOfNats
  <2>3. m \in Nat /\ ~ G(m)
    BY <2>2
  <2>4. m # 0
    <3> SUFFICES ASSUME m = 0 PROVE G(0)
      BY <2>3
    <3> DEFINE g == [i \in D(0) |-> AtEnd(i)]
    <3>1. \A i \in D(0) : i > n
      OBVIOUS
    <3>2. g = [i \in D(0) |-> Body(g, i)]
      BY <3>1
    <3> QED
      BY <3>2
  <2>5. m - 1 \in Nat /\ G(m - 1)
    <3>1. m - 1 \in Nat
      BY <2>3, <2>4
    <3>2. m - 1 \notin C
      <4> HIDE DEF C
      <4> QED
        BY <2>2, <2>3, <3>1
    <3> HIDE DEF G
    <3> QED
      BY <3>1, <3>2
  <2>6. PICK g : g = [i \in D(m - 1) |-> Body(g, i)]
    BY <2>5
  <2> DEFINE h == [i \in D(m) |-> IF i \in D(m - 1) THEN g[i] ELSE Body(g, i)]
  <2>7. D(m - 1) \subseteq D(m)
    BY <2>3, <2>5
  <2>8. ASSUME NEW i \in D(m) PROVE h[i] = Body(h, i)
    <3>1. h[i] = Body(g, i)
      <4> HIDE DEF Body, D
      <4> QED
        BY <2>6
    <3>2. CASE i > n
      BY <3>1, <3>2
    <3>3. CASE ~ (i > n)
      <4>1. i + 1 \in D(m - 1) /\ i + 2 \in D(m - 1)
        BY <2>3, <2>4, <3>3
      <4>2. h[i + 1] = g[i + 1] /\ h[i + 2] = g[i + 2]
        <5> HIDE DEF D, Body
        <5> QED
          BY <2>7, <4>1
      <4> QED
        BY <3>1, <3>3, <4>2
    <3> QED
      BY <3>2, <3>3
  <2>9. h = [i \in D(m) |-> Body(h, i)]
    <3>1. h = [i \in D(m) |-> h[i]]
      OBVIOUS
    <3> HIDE DEF h, Body, D
    <3> QED
      BY <2>8, <3>1
  <2>10. G(m)
    <3> HIDE DEF h, Body, D
    <3> QED
      BY <2>9
  <2> QED
    BY <2>3, <2>10
<1>2. G(n + 2)
  <2> HIDE DEF G
  <2> QED
    BY <1>1
<1>3. D(n + 2) = 1..(n + 2)
  OBVIOUS
<1> QED
  BY <1>2, <1>3

\* What the scan gives: options, and a place in the line.
LEMMA ScanIs ==
    ASSUME NEW line \in Text, NEW lineForm \in BOOLEAN
    PROVE  ScanOptions(line, lineForm) \in Scanned(line)
<1> DEFINE n == Len(line)
           AtEnd(i) == [set |-> {}, args |-> 0, rest |-> n + 1, ok |-> i = n + 1]
           Step(i, x, y) == ScanToken(line, lineForm, i, x, y)
           R == Scanned(line)
           scan[i \in 1..(n + 2)] ==
               IF i > n THEN AtEnd(i) ELSE Step(i, scan[i + 1], scan[i + 2])
           C == {m \in Nat : \E i \in 1..(n + 2) : i + m = n + 2 /\ scan[i] \notin R}
<1>1. n \in Nat
  BY CodeIs
<1>2. ScanOptions(line, lineForm) = scan[1]
  BY DEF ScanOptions
<1>3. \A i \in 1..(n + 2) :
         scan[i] = IF i > n THEN AtEnd(i) ELSE Step(i, scan[i + 1], scan[i + 2])
  <2>1. \E g : g = [i \in 1..(n + 2) |->
                       IF i > n THEN AtEnd(i) ELSE Step(i, g[i + 1], g[i + 2])]
    <3>1. PICK g : IsScan(g, n, line, lineForm)
      BY <1>1, ScanExists
    <3>2. g = [i \in 1..(n + 2) |-> IF i > n THEN AtEnd(i) ELSE Step(i, g[i + 1], g[i + 2])]
      BY <3>1 DEF IsScan
    <3> HIDE DEF n, AtEnd, Step
    <3> QED
      BY <3>2
  <2> HIDE DEF n, AtEnd, Step
  <2>2. scan = [i \in 1..(n + 2) |->
                   IF i > n THEN AtEnd(i) ELSE Step(i, scan[i + 1], scan[i + 2])]
    BY <2>1
  <2> HIDE DEF scan
  <2> QED
    BY <2>2
<1> HIDE DEF scan
<1>4. \A i \in (n + 1)..(n + 2) : AtEnd(i) \in R
  <2> DEFINE v == {}
  <2>1. v \in SUBSET OptTok
    OBVIOUS
  <2> HIDE DEF v
  <2>2. \A i \in (n + 1)..(n + 2) :
           [set |-> v, args |-> 0, rest |-> n + 1, ok |-> i = n + 1] \in R
    BY <1>1, <2>1 DEF Scanned
  <2> QED
    BY <2>2 DEF v
<1>5. \A i \in 1..n, x \in R, y \in R : Step(i, x, y) \in R
  BY ScanTokenType
<1> HIDE DEF AtEnd, Step, R
<1>6. ASSUME C # {} PROVE FALSE
  <2>1. C \subseteq Nat
    OBVIOUS
  <2>2. PICK m \in C : \A k \in C : m <= k
    <3> HIDE DEF C
    <3> QED
      BY <1>6, <2>1, SmallestOfNats
  <2>3. m \in Nat
    BY <2>1
  <2>4. PICK i \in 1..(n + 2) : i + m = n + 2 /\ scan[i] \notin R
    BY <2>2
  <2>5. CASE i > n
    <3>1. i \in (n + 1)..(n + 2)
      BY <1>1, <2>5
    <3> QED
      BY <1>3, <1>4, <2>4, <2>5, <3>1
  <2>6. CASE ~ (i > n)
    <3>1. /\ m - 1 \in Nat /\ m - 2 \in Nat /\ i \in 1..n
          /\ i + 1 \in 1..(n + 2) /\ i + 2 \in 1..(n + 2)
          /\ (i + 1) + (m - 1) = n + 2 /\ (i + 2) + (m - 2) = n + 2
      BY <1>1, <2>3, <2>4, <2>6
    <3>2. m - 1 \notin C /\ m - 2 \notin C
      <4> HIDE DEF C
      <4> QED
        BY <2>2, <2>3, <3>1
    <3>3. scan[i + 1] \in R /\ scan[i + 2] \in R
      BY <3>1, <3>2
    <3> QED
      BY <1>3, <1>5, <2>4, <2>6, <3>1, <3>3
  <2> QED
    BY <2>5, <2>6
<1>7. scan[1] \in R
  <2>1. n + 1 \in Nat /\ 1 \in 1..(n + 2) /\ 1 + (n + 1) = n + 2
    BY <1>1
  <2>2. n + 1 \notin C
    BY <1>6
  <2> QED
    BY <2>1, <2>2
<1> QED
  BY <1>2, <1>7 DEF R

\* What can be reported for an error.
BlameSet == [stmt : Nat, line : Nat, col : Nat, width : Nat, meant : Text, sure : BOOLEAN]

\* The caret of b is under what Spark meant, or its beginning.
Points(s, b) ==
    /\ b.width <= Len(b.meant)
    /\ \E i \in LineStarts(s, b.line) :
        \A w \in 1..b.width : s[i + b.col + w - 2] = b.meant[w]

LEMMA NoBlameIs == NoBlame \in BlameSet /\ NoBlame.stmt = 0 /\ NoBlame.width = 0
<1> DEFINE none == <<>>
<1>1. none \in Text
  BY EmptySeq DEF Text
<1>2. NoBlame = [stmt |-> 0, line |-> 0, col |-> 0, width |-> 0, meant |-> none, sure |-> FALSE]
  BY DEF NoBlame
<1> HIDE DEF none
<1> QED
  BY <1>1, <1>2 DEF BlameSet

\* The smaller and the larger of two numbers.
LEMMA OfTwo ==
    ASSUME NEW a \in Nat, NEW b \in Nat
    PROVE  /\ Min({a, b}) = IF a <= b THEN a ELSE b
           /\ Max({a, b}) = IF a <= b THEN b ELSE a
<1> DEFINE S == {a, b}
           n == IF a <= b THEN b ELSE a
<1>1. S \subseteq Nat /\ S # {} /\ n \in Nat /\ (\A x \in S : x <= n) /\ a \in S /\ b \in S
  OBVIOUS
<1> HIDE DEF S, n
<1>2. Min(S) \in S /\ Min(S) <= a /\ Min(S) <= b /\ Max(S) \in S /\ Max(S) >= a /\ Max(S) >= b
  BY <1>1, SmallestOfNats, LargestOfNats
<1> QED
  BY <1>2 DEF S

\* A slice of a text.
LEMMA SliceIs ==
    ASSUME NEW s \in Text, NEW a \in Nat \ {0}, NEW b \in Nat
    PROVE  LET e == IF b <= Len(s) THEN b ELSE Len(s)
           IN /\ Slice(s, a, b) \in Text
              /\ Len(Slice(s, a, b)) = IF a <= e THEN e - a + 1 ELSE 0
              /\ \A w \in 1..(e - a + 1) : Slice(s, a, b)[w] = s[a + w - 1]
<1> DEFINE e == IF b <= Len(s) THEN b ELSE Len(s)
<1>1. Len(s) \in Nat /\ \A i \in 1..Len(s) : s[i] \in Token
  BY CodeIs
<1>2. e = Min({b, Len(s)}) /\ e \in Nat /\ e <= Len(s)
  BY <1>1, OfTwo
<1>3. Slice(s, a, b) = SubSeq(s, a, e)
  BY <1>2 DEF Slice
<1> HIDE DEF e
<1>4. \A i \in a..e : s[i] \in Token
  BY <1>1, <1>2
<1>5. /\ SubSeq(s, a, e) \in Seq(Token)
      /\ Len(SubSeq(s, a, e)) = IF a <= e THEN e - a + 1 ELSE 0
      /\ \A w \in 1..(e - a + 1) : SubSeq(s, a, e)[w] = s[a + w - 1]
  <2>1. a \in Int /\ e \in Int
    BY <1>2
  <2> QED
    BY <1>4, <2>1, SubSeqProperties
<1>6. /\ Slice(s, a, b) \in Text
      /\ Len(Slice(s, a, b)) = IF a <= e THEN e - a + 1 ELSE 0
      /\ \A w \in 1..(e - a + 1) : Slice(s, a, b)[w] = s[a + w - 1]
  BY <1>3, <1>5 DEF Text
<1> QED
  BY <1>6 DEF e

\* The line of a position: where it begins is where its number leads.
LEMMA LineOf ==
    ASSUME NEW s \in Text, NEW p \in 1..(Len(s) + 1)
    PROVE  /\ LineBegin(s, p) \in 1..p
           /\ NewLines(s, p - 1) \in Nat
           /\ \A i : i \in LineStarts(s, NewLines(s, p - 1) + 1) <=> i = LineBegin(s, p)
<1> DEFINE B == {0} \cup {i \in 1..(p - 1) : s[i] = "ws"}
           b == Max(B)
           W(n) == {i \in 1..n : s[i] = "ws"}
           C(n) == Cardinality(W(n))
<1>1. Len(s) \in Nat /\ p \in Nat \ {0} /\ p <= Len(s) + 1
  BY CodeIs
<1>2. B \subseteq Nat /\ B # {} /\ p - 1 \in Nat /\ \A i \in B : i <= p - 1
  BY <1>1
<1>3. b \in B /\ \A i \in B : b >= i
  <2> HIDE DEF B
  <2> QED
    BY <1>2, LargestOfNats
<1>4. LineBegin(s, p) = b + 1
  BY DEF LineBegin
<1> HIDE DEF b
<1>5. b \in 0..(p - 1) /\ (b # 0 => s[b] = "ws") /\ b + 1 \in 1..p
  BY <1>1, <1>3
<1>6. W(b) = W(p - 1)
  <2>1. ASSUME NEW i \in W(p - 1) PROVE i \in W(b)
    <3>1. i \in B
      BY <2>1
    <3>2. i \in 1..(p - 1) /\ s[i] = "ws" /\ b >= i
      BY <1>3, <2>1, <3>1
    <3> QED
      BY <1>5, <3>2
  <2> QED
    BY <1>1, <1>5, <2>1
<1>7. ASSUME NEW n \in Nat
      PROVE  IsFiniteSet(W(n)) /\ C(n) \in Nat /\ C(n) = NewLines(s, n)
  <2>1. IsFiniteSet(1..n)
    BY FS_Interval
  <2>2. W(n) \in SUBSET (1..n)
    OBVIOUS
  <2>3. IsFiniteSet(W(n))
    BY <2>1, <2>2, FS_Subset
  <2> QED
    BY <2>3, FS_CardinalityType DEF NewLines
<1>8. ASSUME NEW i \in 1..(Len(s) + 1), NEW j \in 1..(Len(s) + 1), i < j, s[j - 1] = "ws",
             C(i - 1) = C(j - 1)
      PROVE  FALSE
  <2>1. i - 1 \in Nat /\ j - 1 \in Nat /\ i - 1 < j - 1
    BY <1>1, <1>8
  <2>2. W(i - 1) \in SUBSET W(j - 1) /\ j - 1 \in W(j - 1) /\ j - 1 \notin W(i - 1)
    BY <1>8, <2>1
  <2>3. IsFiniteSet(W(j - 1))
    BY <1>7, <2>1
  <2> HIDE DEF W
  <2>4. W(i - 1) = W(j - 1)
    BY <1>8, <2>2, <2>3, FS_Subset
  <2> QED
    BY <2>2, <2>4
<1>9. C(p - 1) = NewLines(s, p - 1) /\ C(p - 1) \in Nat /\ C(b) = C(p - 1)
  <2>1. p - 1 \in Nat
    BY <1>1
  <2> QED
    BY <1>6, <1>7, <2>1
<1> DEFINE n == NewLines(s, p - 1) + 1
<1> HIDE DEF W, B
<1>10. ASSUME NEW i
       PROVE  i \in LineStarts(s, n) <=>
                  i \in 1..(Len(s) + 1) /\ C(i - 1) = C(p - 1) /\ (i > 1 => s[i - 1] = "ws")
  <2>1. ASSUME i \in 1..(Len(s) + 1)
        PROVE  (NewLines(s, i - 1) + 1 = n) <=> (C(i - 1) = C(p - 1))
    <3>1. i - 1 \in Nat
      BY <1>1, <2>1
    <3>2. C(i - 1) \in Nat /\ C(i - 1) = NewLines(s, i - 1)
      BY <1>7, <3>1
    <3> QED
      BY <1>9, <3>2
  <2> QED
    BY <2>1 DEF LineStarts
<1> HIDE DEF C
<1>11. b + 1 \in 1..(Len(s) + 1) /\ (b + 1) - 1 = b /\ (b + 1 > 1 => s[(b + 1) - 1] = "ws")
  BY <1>1, <1>5
<1>12. b + 1 \in LineStarts(s, n)
  BY <1>9, <1>10, <1>11
<1>13. ASSUME NEW i \in LineStarts(s, n) PROVE i = b + 1
  <2>1. i \in 1..(Len(s) + 1) /\ C(i - 1) = C(p - 1) /\ (i > 1 => s[i - 1] = "ws")
    BY <1>10, <1>13
  <2>2. ~ (i < b + 1)
    BY <1>8, <1>9, <1>11, <2>1
  <2>3. ~ (b + 1 < i)
    BY <1>8, <1>9, <1>11, <2>1
  <2> QED
    BY <1>1, <1>11, <2>1, <2>2, <2>3
<1> QED
  BY <1>4, <1>5, <1>9, <1>12, <1>13

\* b is the statement t of s.
IsPart(b, t, s) ==
    /\ b.off \in 1..Len(s) /\ b.len = Len(t) /\ b.off + Len(t) - 1 <= Len(s)
    /\ \A q \in 1..Len(t) : t[q] = s[b.off + q - 1]

\* What is meant is in t from start to stop, if that is sure.
IsMeant(meant, sure, t, start, stop) ==
    /\ start \in Nat \ {0} /\ stop \in Nat /\ start <= stop
    /\ meant \in Text /\ sure \in BOOLEAN
    /\ sure => meant = Slice(t, start, stop)

\* Where a report points, for a statement t of s.
LEMMA ReportPoints ==
    ASSUME NEW s \in Text, NEW t \in Text, NEW k \in Nat, NEW b, IsPart(b, t, s),
           NEW start, NEW stop, NEW meant, NEW sure, IsMeant(meant, sure, t, start, stop)
    PROVE  LET r == Report(k, b, s, start, stop, meant, sure)
           IN /\ r \in BlameSet /\ r.stmt = k
              /\ r.sure /\ r.width # 0 => Points(s, r)
<1> DEFINE r == Report(k, b, s, start, stop, meant, sure)
           o == b.off
           from == o + start - 1
           end == IF stop <= Len(t) THEN stop ELSE Len(t)
           to == o + end - 1
           le == LineEnd(s, from)
           lb == LineBegin(s, from)
           nl == NewLines(s, from - 1)
           room == IF to <= le - 1 THEN to ELSE le - 1
           wide == IF 1 <= room - from + 1 THEN room - from + 1 ELSE 1
<1>a. /\ start \in Nat \ {0} /\ stop \in Nat /\ start <= stop
      /\ meant \in Text /\ sure \in BOOLEAN
      /\ sure => meant = Slice(t, start, stop)
  BY DEF IsMeant
<1>1. /\ Len(s) \in Nat /\ Len(t) \in Nat /\ o \in Nat \ {0} /\ b.len = Len(t)
      /\ o + Len(t) - 1 <= Len(s) /\ \A q \in 1..Len(t) : t[q] = s[o + q - 1]
  BY CodeIs DEF IsPart
<1>2. CASE start > Len(t)
  <2>1. r = [NoBlame EXCEPT !.stmt = k]
    BY <1>1, <1>2 DEF Report
  <2>2. [NoBlame EXCEPT !.stmt = k] \in BlameSet
    BY NoBlameIs DEF BlameSet
  <2>3. r.stmt = k /\ r.width = 0
    BY <2>1, NoBlameIs DEF BlameSet
  <2> QED
    BY <2>1, <2>2, <2>3
<1>3. CASE start <= Len(t)
  <2>1. /\ from \in 1..Len(s) /\ from \in 1..(Len(s) + 1) /\ end \in Nat /\ to \in Nat
        /\ start <= end /\ from <= to /\ to - from = end - start
        /\ end <= Len(t) /\ from = o + start - 1 /\ from \in Nat
    <3>1. /\ start \in Nat /\ start >= 1 /\ stop \in Nat /\ start <= stop /\ start <= Len(t)
          /\ o \in Nat /\ o >= 1 /\ Len(t) \in Nat /\ Len(s) \in Nat
          /\ o + Len(t) - 1 <= Len(s)
      BY <1>a, <1>1, <1>3
    <3>2. end \in Nat /\ start <= end /\ end <= Len(t)
      BY <3>1
    <3>3. from \in Nat /\ from >= 1 /\ from <= Len(s) /\ from = o + start - 1
      BY <3>1
    <3> HIDE DEF end
    <3>4. to \in Nat /\ from <= to /\ to - from = end - start
      BY <3>1, <3>2
    <3>5. from \in 1..Len(s) /\ from \in 1..(Len(s) + 1)
      <4> HIDE DEF from
      <4> QED
        BY <3>1, <3>3
    <3> HIDE DEF from, to
    <3> QED
      BY <3>2, <3>3, <3>4, <3>5
  <2>2. /\ lb \in 1..from /\ nl \in Nat /\ lb \in LineStarts(s, nl + 1)
    <3> HIDE DEF from
    <3> QED
      BY <2>1, LineOf
  <2>3. le \in Nat /\ le >= from
    <3> DEFINE S == {Len(s) + 1} \cup {i \in from..Len(s) : s[i] = "ws"}
    <3> HIDE DEF from
    <3>1. S \subseteq Nat /\ S # {} /\ \A i \in S : i >= from
      BY <1>1, <2>1
    <3>2. le = Min(S)
      BY DEF LineEnd
    <3> HIDE DEF S, le
    <3>3. Min(S) \in S
      BY <3>1, SmallestOfNats
    <3> QED
      BY <3>1, <3>2, <3>3
  <2>4. Min({stop, b.len}) = end
    BY <1>a, <1>1, OfTwo
  <2> HIDE DEF lb, nl, le
  <2>5. Min({to, le - 1}) = room
    <3>1. le - 1 \in Nat
      BY <2>1, <2>3
    <3> HIDE DEF to
    <3> QED
      BY <2>1, <3>1, OfTwo
  <2>6. Max({1, room - from + 1}) = wide
    <3>1. room \in Nat /\ from \in Nat /\ room - from + 1 \in Nat
      <4> HIDE DEF from, to
      <4> QED
        BY <2>1, <2>3
    <3> HIDE DEF room, from
    <3> QED
      BY <3>1, OfTwo
  <2>7. wide \in Nat /\ wide >= 1 /\ wide <= to - from + 1
    <3> HIDE DEF from, to
    <3> QED
      BY <2>1, <2>3
  <2>8. r = [stmt |-> k, line |-> nl + 1, col |-> from - lb + 1, width |-> wide,
             meant |-> meant, sure |-> sure]
    <3>1. ~ (start > b.len)
      BY <1>a, <1>1, <1>3
    <3> HIDE DEF wide
    <3> QED
      BY <2>4, <2>5, <2>6, <3>1 DEF Report, lb, nl, le
  <2>9. from - lb + 1 \in Nat /\ nl + 1 \in Nat
    <3> HIDE DEF from
    <3> QED
      BY <2>1, <2>2
  <2> HIDE DEF wide, r
  <2>10. r \in BlameSet /\ r.stmt = k
    BY <1>a, <2>7, <2>8, <2>9 DEF BlameSet
  <2>11. ASSUME sure PROVE Points(s, r)
    <3>1. meant = Slice(t, start, stop)
      BY <1>a, <2>11
    <3>2. Len(meant) = end - start + 1 /\ \A w \in 1..(end - start + 1) : meant[w] = t[start + w - 1]
      BY <1>a, <1>1, <1>3, <2>1, <3>1, SliceIs
    <3>3. r.width <= Len(r.meant)
      BY <2>1, <2>7, <2>8, <3>2
    <3>4. ASSUME NEW w \in 1..wide PROVE s[lb + (from - lb + 1) + w - 2] = meant[w]
      <4>1. /\ w \in Nat /\ w \in 1..(end - start + 1) /\ start + w - 1 \in 1..Len(t)
            /\ o + (start + w - 1) - 1 = from + w - 1
        <5> HIDE DEF from, to, end
        <5>1. /\ w \in Nat /\ w >= 1 /\ w <= wide
              /\ start \in Nat /\ end \in Nat /\ o \in Nat /\ to - from = end - start
          BY <1>a, <1>1, <2>1, <2>7
        <5>2. w <= end - start + 1
          BY <2>1, <2>7, <5>1
        <5>3. w \in 1..(end - start + 1)
          BY <5>1, <5>2
        <5>4. start + w - 1 \in 1..Len(t)
          <6>1. start + w - 1 <= end /\ end <= Len(t) /\ start >= 1
            BY <1>a, <2>1, <5>1, <5>2
          <6> QED
            BY <1>1, <5>1, <6>1
        <5>5. o + (start + w - 1) - 1 = from + w - 1
          <6>1. from = o + start - 1
            BY <2>1
          <6> QED
            BY <5>1, <6>1
        <5> QED
          BY <5>1, <5>3, <5>4, <5>5
      <4>2. meant[w] = s[from + w - 1]
        BY <1>1, <3>2, <4>1
      <4>3. lb + (from - lb + 1) + w - 2 = from + w - 1
        <5>1. lb \in Nat /\ from \in Nat /\ w \in Nat
          BY <2>1, <2>2, <4>1
        <5> HIDE DEF from
        <5> QED
          BY <5>1
      <4> QED
        BY <4>2, <4>3
    <3> HIDE DEF from
    <3>5. \A w \in 1..r.width : s[lb + r.col + w - 2] = r.meant[w]
      BY <2>8, <3>4
    <3> QED
      BY <2>2, <2>8, <3>3, <3>5 DEF Points
  <2>12. r.sure = sure
    BY <2>8
  <2> QED
    BY <2>10, <2>11, <2>12 DEF r
<1> QED
  BY <1>a, <1>1, <1>2, <1>3

\* What the call has done before the statements run: nothing, or all of it.
Begun == stage # "new" /\ out # "usage"

Running == {"materialize", "view", "show", "assign"}

\* Type correctness.
CellTypeOK ==
    /\ in \in [line : Lines, cell : Cells, lineForm : BOOLEAN]
    /\ ns \in [Name -> Kind]
    /\ stage \in {"new", "run", "done"} \cup Running
    /\ opts \in SUBSET OptTok /\ sql \in Text
    /\ bound = [k \in 1..Len(bound) |-> bound[k]] /\ Len(bound) \in Nat
    /\ ran \in Seq({Parsed(bound[k]) : k \in 1..Len(bound)})
    /\ cached \in {"no", "checkpoint", "cache"} /\ view \in BOOLEAN /\ variable \in BOOLEAN
    /\ out \in {"none", "ok", "usage", "error", "interrupt"}
    /\ blame \in BlameSet

\* Everything is bound before anything runs, and is what the cell's statements give.
BoundFirst ==
    /\ Begun =>
          /\ bound = [k \in 1..Len(SplitStatements(sql)) |-> Bind(SplitStatements(sql)[k])]
          /\ CanBind(sql)
    /\ ~ Begun => bound = <<>> /\ ran = <<>>

\* How much has run at each step.
Progress ==
    /\ stage \in {"new", "run"} \cup Running => out = "none" /\ ~ variable /\ blame = NoBlame
    /\ Len(ran) <= Len(bound)
    /\ stage = "run" => Len(ran) < Len(bound)
    /\ stage \in Running \/ out = "ok" => Len(ran) = Len(bound) /\ Len(bound) > 0
    /\ variable => out = "ok" /\ ~ in.lineForm

CellInv == CellTypeOK /\ BoundFirst /\ Progress /\ BlameIsRight

\* The call starts with nothing done.
LEMMA CellInitInv == CellInit => CellInv
<1> SUFFICES ASSUME CellInit PROVE CellInv
  OBVIOUS
<1> DEFINE none == <<>>
<1>1. /\ in \in [line : Lines, cell : Cells, lineForm : BOOLEAN] /\ ns \in [Name -> Kind]
      /\ stage = "new" /\ opts = {} /\ sql = none /\ bound = none /\ ran = none
      /\ cached = "no" /\ view = FALSE /\ variable = FALSE /\ out = "none" /\ blame = NoBlame
  BY DEF CellInit
<1>2. none \in Text /\ Len(none) = 0 /\ none \in Seq({Parsed(bound[k]) : k \in 1..Len(bound)})
  BY EmptySeq DEF Text
<1>3. none = [k \in 1..Len(none) |-> none[k]]
  OBVIOUS
<1> HIDE DEF none
<1>4. bound = [k \in 1..Len(bound) |-> bound[k]] /\ Len(bound) \in Nat
  BY <1>1, <1>2, <1>3
<1>5. blame \in BlameSet /\ blame.stmt = 0
  BY <1>1, NoBlameIs
<1>6. opts \in SUBSET OptTok
  BY <1>1
<1>7. CellTypeOK
  BY <1>1, <1>2, <1>4, <1>5, <1>6 DEF CellTypeOK
<1>8. BoundFirst
  BY <1>1 DEF BoundFirst, Begun, none
<1>9. Progress /\ BlameIsRight
  BY <1>1, <1>2, <1>5 DEF Progress, BlameIsRight, Running
<1> QED
  BY <1>7, <1>8, <1>9 DEF CellInv

\* All names a text needs are needed by one of its statements.
LEMMA CanBindAll ==
    ASSUME NEW s \in Text,
           \A k \in 1..Len(SplitStatements(s)) : CanBind(SplitStatements(s)[k].toks)
    PROVE  CanBind(s)
<1> DEFINE st == SplitStatements(s)
           Part(k) == \A p \in 1..Len(st[k].toks) : st[k].toks[p] = s[st[k].off + p - 1]
<1>1. /\ \A k \in 1..Len(st) :
            /\ st[k].off \in 1..Len(s) /\ st[k].toks \in Text
            /\ st[k].off + Len(st[k].toks) - 1 <= Len(s) /\ Part(k)
      /\ \A i, j \in Nat : i <= j /\ i..j \subseteq Code(s) =>
            \E k \in 1..Len(st) : st[k].off <= i /\ j <= st[k].off + Len(st[k].toks) - 1
  BY SplitIs
<1>2. /\ Len(s) \in Nat
      /\ \A i : i \in Code(s) <=> i \in 1..Len(s) /\ s[i] \notin {"ws", "cm", "semi"}
  BY CodeIs
<1>3. \A k \in 1..Len(st) : CanBind(st[k].toks)
  OBVIOUS
<1> HIDE DEF st
<1>4. ASSUME NEW k \in 1..Len(st)
      PROVE  /\ st[k].off \in Nat \ {0} /\ Len(st[k].toks) \in Nat
             /\ \A p \in 1..Len(st[k].toks) : st[k].toks[p] = s[st[k].off + p - 1]
  <2>1. /\ st[k].off \in 1..Len(s) /\ st[k].toks \in Text /\ Part(k)
    BY <1>1
  <2> QED
    BY <1>2, <2>1, CodeIs
<1>5. ASSUME NEW m \in Markers(s) PROVE KindOf(m) = "value"
  <2>1. PICK i \in 1..Len(s) : s[i] = "mark" /\ m = s[i]
    BY <1>5 DEF Markers
  <2>2. i \in Nat /\ i <= i /\ i..i \subseteq Code(s)
    BY <1>2, <2>1
  <2>3. PICK k \in 1..Len(st) : st[k].off <= i /\ i <= st[k].off + Len(st[k].toks) - 1
    BY <1>1, <2>2
  <2> DEFINE t == st[k].toks
             p == i - st[k].off + 1
  <2> DEFINE o == st[k].off
             n == Len(t)
  <2>a. /\ o \in Nat \ {0} /\ n \in Nat /\ \A q \in 1..n : t[q] = s[o + q - 1]
        /\ o <= i /\ i <= o + n - 1 /\ p = i - o + 1
    BY <1>4, <2>3
  <2> HIDE DEF p, o, n, t
  <2>4. p \in 1..n /\ t[p] = s[i]
    BY <2>2, <2>a
  <2>5. m \in Markers(t)
    BY <2>1, <2>4 DEF Markers, n
  <2> QED
    BY <1>3, <2>5 DEF CanBind, t
<1>6. ASSUME NEW f \in Fields(s) PROVE KindOf(f) = "df"
  <2>1. PICK i \in 1..Len(s) : BraceIdent(s, i) # 0 /\ f = s[i + 1]
    BY <1>6 DEF Fields
  <2>2. i + 2 <= Len(s) /\ s[i] = "lb" /\ IsIdent(s[i + 1]) /\ s[i + 2] = "rb"
    BY <2>1 DEF BraceIdent
  <2>3. s[i + 1] \notin {"ws", "cm", "semi"}
    BY <2>2 DEF IsIdent
  <2>4. i \in Code(s) /\ i + 1 \in Code(s) /\ i + 2 \in Code(s)
    BY <1>2, <2>2, <2>3
  <2>5. i \in Nat /\ i + 2 \in Nat /\ i <= i + 2 /\ i..(i + 2) \subseteq Code(s)
    <3>1. i..(i + 2) = {i, i + 1, i + 2}
      BY <1>2
    <3> QED
      BY <1>2, <2>4, <3>1
  <2>6. PICK k \in 1..Len(st) : st[k].off <= i /\ i + 2 <= st[k].off + Len(st[k].toks) - 1
    BY <1>1, <2>5
  <2> DEFINE t == st[k].toks
             p == i - st[k].off + 1
  <2> DEFINE o == st[k].off
             n == Len(t)
  <2>a. /\ o \in Nat \ {0} /\ n \in Nat /\ \A q \in 1..n : t[q] = s[o + q - 1]
        /\ o <= i /\ i + 2 <= o + n - 1 /\ p = i - o + 1
    BY <1>4, <2>6
  <2> HIDE DEF p, o, n, t
  <2>7. /\ p \in 1..n /\ p + 1 \in 1..n /\ p + 2 \in 1..n
        /\ o + p - 1 = i /\ o + (p + 1) - 1 = i + 1 /\ o + (p + 2) - 1 = i + 2
        /\ p \in Nat \ {0} /\ p + 2 <= n
    BY <2>5, <2>a
  <2>8. t[p] = s[i] /\ t[p + 1] = s[i + 1] /\ t[p + 2] = s[i + 2]
    BY <2>7, <2>a
  <2>9. BraceIdent(t, p) # 0
    BY <2>2, <2>7, <2>8 DEF BraceIdent, n
  <2>10. f \in Fields(t)
    BY <2>1, <2>7, <2>8, <2>9 DEF Fields, n
  <2> QED
    BY <1>3, <2>10 DEF CanBind, t
<1> QED
  BY <1>5, <1>6 DEF CanBind

\* Where Spark's position goes: into the cell, at what it is about.
LEMMA ReraiseIsRight ==
    ASSUME CellInv, Begun, NEW k \in 1..Len(bound), Len(ran) >= k - 1, Reraise(k),
           blame = NoBlame
    PROVE  /\ blame' \in BlameSet
           /\ blame'.stmt # 0 => /\ Len(ran) >= blame'.stmt - 1
                                 /\ blame'.sure /\ blame'.width # 0 => Points(sql, blame')
<1> DEFINE b == bound[k]
           text == Parsed(b)
           st == SplitStatements(sql)[k]
<1>1. CASE UNCHANGED blame
  BY <1>1, NoBlameIs
<1>2. CASE blame' = [NoBlame EXCEPT !.stmt = k]
  <2>1. [NoBlame EXCEPT !.stmt = k] \in BlameSet /\ blame'.stmt = k /\ blame'.width = 0
    BY <1>2, NoBlameIs DEF BlameSet
  <2> QED
    BY <1>2, <2>1
<1>3. CASE /\ ~b.kw
           /\ \E t \in Views \cup {text} :
                 \/ \E c \in ContextsIn(t) :
                       /\ Accepts(text, c)
                       /\ blame' = Report(k, b, sql, c.start, c.stop, c.frag,
                                          c.says \/ t = text)
                 \/ \E p \in 1..(Len(t) + 1) : \E q \in ParsePosition(text, LinePos(t, p)) :
                       blame' = Report(k, b, sql, q, q, Slice(t, p, p), t = text)
  <2>1. b = Bind(st) /\ sql \in Text /\ k \in 1..Len(SplitStatements(sql))
    <3>1. /\ sql \in Text
          /\ bound = [i \in 1..Len(SplitStatements(sql)) |-> Bind(SplitStatements(sql)[i])]
          /\ Len(bound) \in Nat
      BY DEF CellInv, CellTypeOK, BoundFirst
    <3>2. Len(SplitStatements(sql)) \in Nat
      BY <3>1, SplitIs
    <3>3. Len(bound) = Len(SplitStatements(sql))
      BY <3>1, <3>2
    <3> QED
      BY <3>1, <3>3
  <2>2. /\ st.off \in 1..Len(sql) /\ st.toks \in Text
        /\ st.off + Len(st.toks) - 1 <= Len(sql)
        /\ \A q \in 1..Len(st.toks) : st.toks[q] = sql[st.off + q - 1]
    BY <2>1, SplitIs
  <2> HIDE DEF st
  <2>3. b.off = st.off /\ b.len = Len(st.toks) /\ text = st.toks
    <3> DEFINE w == Fields(st.toks) # {}
               e == EscapeBraces(st.toks)
    <3>1. /\ b.off = st.off /\ b.len = Len(st.toks) /\ b.kw = w
          /\ b.sql = IF w THEN e ELSE st.toks
      <4> HIDE DEF e
      <4>1. b = [off |-> st.off, len |-> Len(st.toks), kw |-> w,
                 sql |-> IF w THEN e ELSE st.toks]
        BY <2>1 DEF Bind, e
      <4> HIDE DEF b, w
      <4> QED
        BY <4>1
    <3>2. ~ b.kw
      BY <1>3
    <3> HIDE DEF b, w, e
    <3>3. b.sql = st.toks /\ Parsed(b) = st.toks
      BY <3>1, <3>2 DEF Parsed
    <3> QED
      BY <3>1, <3>3
  <2> HIDE DEF b, text
  <2>4. text \in Text /\ IsPart(b, text, sql) /\ sql \in Text /\ k \in Nat
    <3>1. k \in Nat
      BY <2>1
    <3> QED
      BY <2>1, <2>2, <2>3, <3>1 DEF IsPart
  <2>5. PICK t \in Views \cup {text} :
           \/ \E c \in ContextsIn(t) :
                 /\ Accepts(text, c)
                 /\ blame' = Report(k, b, sql, c.start, c.stop, c.frag, c.says \/ t = text)
           \/ \E p \in 1..(Len(t) + 1) : \E q \in ParsePosition(text, LinePos(t, p)) :
                 blame' = Report(k, b, sql, q, q, Slice(t, p, p), t = text)
    BY <1>3
  <2>6. t \in Text
    <3>1. CASE t \in Views
      <4>1. t \in Seq(SqlTok)
        BY <3>1, CellAssumption
      <4>2. SqlTok \subseteq Token
        BY DEF Token
      <4> HIDE DEF Token
      <4> QED
        BY <4>1, <4>2 DEF Text
    <3> QED
      BY <2>4, <2>5, <3>1
  <2>7. Len(t) \in Nat /\ Len(text) \in Nat
    BY <2>4, <2>6, CodeIs
  <2>8. CASE \E c \in ContextsIn(t) :
                 /\ Accepts(text, c)
                 /\ blame' = Report(k, b, sql, c.start, c.stop, c.frag, c.says \/ t = text)
    <3>1. PICK c \in ContextsIn(t) :
                 /\ Accepts(text, c)
                 /\ blame' = Report(k, b, sql, c.start, c.stop, c.frag, c.says \/ t = text)
      BY <2>8
    <3>2. PICK x \in 1..Len(t), y \in 1..Len(t), f \in BOOLEAN :
                 c = [start |-> x, stop |-> y, frag |-> SubSeq(t, x, y), says |-> f]
      BY <3>1 DEF ContextsIn
    <3> DEFINE frag == SubSeq(t, x, y)
    <3>3. c.start = x /\ c.stop = y /\ c.frag = frag /\ c.says = f
      <4> HIDE DEF frag
      <4>1. c = [start |-> x, stop |-> y, frag |-> frag, says |-> f]
        BY <3>2 DEF frag
      <4> QED
        BY <4>1
    <3>4. x \in Nat \ {0} /\ y \in Nat /\ x <= y /\ (f => Slice(text, x, y) = frag)
      <4> HIDE DEF frag
      <4> QED
        BY <2>7, <3>1, <3>3 DEF Accepts
    <3>5. frag = Slice(t, x, y)
      <4>1. Min({y, Len(t)}) = y
        BY <2>7, <3>4, OfTwo
      <4> QED
        BY <4>1 DEF Slice
    <3> HIDE DEF frag
    <3>6. frag \in Text
      BY <2>6, <3>4, <3>5, SliceIs
    <3> DEFINE sure == f \/ t = text
    <3>7. IsMeant(frag, sure, text, x, y)
      BY <3>4, <3>5, <3>6 DEF IsMeant
    <3>8. blame' = Report(k, b, sql, x, y, frag, sure)
      BY <3>1, <3>3
    <3> HIDE DEF sure
    <3>9. /\ blame' \in BlameSet /\ blame'.stmt = k
          /\ blame'.sure /\ blame'.width # 0 => Points(sql, blame')
      BY <2>4, <3>7, <3>8, ReportPoints
    <3> QED
      BY <3>9
  <2>9. CASE \E p \in 1..(Len(t) + 1) : \E q \in ParsePosition(text, LinePos(t, p)) :
                 blame' = Report(k, b, sql, q, q, Slice(t, p, p), t = text)
    <3>1. PICK p \in 1..(Len(t) + 1) : \E q \in ParsePosition(text, LinePos(t, p)) :
                 blame' = Report(k, b, sql, q, q, Slice(t, p, p), t = text)
      BY <2>9
    <3>2. PICK q \in ParsePosition(text, LinePos(t, p)) :
                 blame' = Report(k, b, sql, q, q, Slice(t, p, p), t = text)
      BY <3>1
    <3> DEFINE sure == t = text
               l == NewLines(t, p - 1) + 1
               m == p - LineBegin(t, p)
    <3>3. q \in Nat \ {0} /\ \E i \in LineStarts(text, l) : q = i + m
      <4> HIDE DEF l, m
      <4>1. LinePos(t, p) = [line |-> l, pos |-> m]
        BY DEF LinePos, l, m
      <4>2. LinePos(t, p).line = l /\ LinePos(t, p).pos = m
        BY <4>1
      <4> QED
        BY <2>7, <3>2, <4>2 DEF ParsePosition
    <3>4. p \in Nat \ {0} /\ Slice(t, p, p) \in Text
      <4>1. p \in Nat \ {0} /\ p \in Nat
        BY <2>7
      <4> QED
        BY <2>6, <4>1, SliceIs
    <3>5. ASSUME sure PROVE q = p
      <4>1. PICK i \in LineStarts(t, l) : q = i + m
        BY <3>3, <3>5
      <4>2. i = LineBegin(t, p) /\ LineBegin(t, p) \in 1..p
        BY <2>6, <4>1, LineOf
      <4> QED
        BY <3>4, <4>1, <4>2
    <3>6. IsMeant(Slice(t, p, p), sure, text, q, q)
      BY <3>3, <3>4, <3>5 DEF IsMeant
    <3>7. blame' = Report(k, b, sql, q, q, Slice(t, p, p), sure)
      BY <3>2
    <3> HIDE DEF sure
    <3>8. /\ blame' \in BlameSet /\ blame'.stmt = k
          /\ blame'.sure /\ blame'.width # 0 => Points(sql, blame')
      BY <2>4, <3>6, <3>7, ReportPoints
    <3> QED
      BY <3>8
  <2> QED
    BY <2>5, <2>8, <2>9
<1> QED
  BY <1>1, <1>2, <1>3 DEF Reraise

\* Parsing and binding: all statements or none.
LEMMA StartKeeps == CellInv /\ Start => CellInv'
<1> SUFFICES ASSUME CellInv, Start PROVE CellInv'
  OBVIOUS
<1> DEFINE text == in.line \o (IF in.lineForm THEN in.cell ELSE <<>>)
           o == ScanOptions(text, in.lineForm)
           s == IF in.lineForm THEN SubSeq(text, o.rest, Len(text)) ELSE in.cell
           st == SplitStatements(s)
<1>1. /\ stage = "new" /\ UNCHANGED <<in, ns, ran, cached, view, variable, blame>>
      /\ \/ Fail("usage") /\ UNCHANGED <<opts, sql, bound>>
         \/ /\ st # <<>>
            /\ \A k \in 1..Len(st) : CanBind(st[k].toks)
            /\ stage' = "run" /\ UNCHANGED out
            /\ opts' = o.set \cup (IF in.lineForm THEN {"-q"} ELSE {})
            /\ sql' = s
            /\ bound' = [k \in 1..Len(st) |-> Bind(st[k])]
  BY DEF Start
<1> HIDE DEF text, o, s, st
<1>2. CellTypeOK /\ BoundFirst /\ Progress /\ BlameIsRight
  BY DEF CellInv
<1>3. /\ out = "none" /\ ~ variable /\ blame = NoBlame /\ bound = <<>> /\ ran = <<>>
  BY <1>1, <1>2 DEF BoundFirst, Progress, Begun
<1>4. BlameIsRight'
  BY <1>1, <1>3 DEF BlameIsRight, NoBlame
<1>5. ran' \in Seq({Parsed(bound'[k]) : k \in 1..Len(bound')}) /\ Len(ran') = 0
  BY <1>1, <1>3, EmptySeq
<1>6. CASE Fail("usage") /\ UNCHANGED <<opts, sql, bound>>
  <2>1. stage' = "done" /\ out' = "usage"
    BY <1>6 DEF Fail
  <2>2. CellTypeOK'
    BY <1>1, <1>2, <1>5, <1>6, <2>1 DEF CellTypeOK
  <2>3. BoundFirst'
    BY <1>1, <1>3, <1>6, <2>1 DEF BoundFirst, Begun
  <2>4. Progress'
    <3>1. Len(bound') \in Nat
      BY <2>2 DEF CellTypeOK
    <3> QED
      BY <1>1, <1>3, <1>5, <2>1, <3>1 DEF Progress, Running
  <2> QED
    BY <1>4, <2>2, <2>3, <2>4 DEF CellInv
<1>7. CASE /\ st # <<>>
           /\ \A k \in 1..Len(st) : CanBind(st[k].toks)
           /\ stage' = "run" /\ UNCHANGED out
           /\ opts' = o.set \cup (IF in.lineForm THEN {"-q"} ELSE {})
           /\ sql' = s
           /\ bound' = [k \in 1..Len(st) |-> Bind(st[k])]
  <2>1. in.line \in Text /\ in.cell \in Text /\ in.lineForm \in BOOLEAN
    <3>1. in.line \in Lines /\ in.cell \in Cells /\ in.lineForm \in BOOLEAN
      BY <1>2 DEF CellTypeOK
    <3>2. in.line \in Seq(LineTok) /\ in.cell \in Seq(SqlTok)
      BY <3>1, CellAssumption
    <3>3. LineTok \subseteq Token /\ SqlTok \subseteq Token
      BY DEF Token
    <3>4. in.line \in Seq(Token) /\ in.cell \in Seq(Token)
      BY <3>2, <3>3, SeqMonotonic
    <3> QED
      BY <3>1, <3>4 DEF Text
  <2>2. text \in Text
    <3>1. <<>> \in Seq(Token)
      BY EmptySeq
    <3>2. \A x \in Seq(Token), y \in Seq(Token) : x \o y \in Seq(Token)
      BY ConcatProperties
    <3>3. CASE in.lineForm
      BY <2>1, <3>2, <3>3 DEF text, Text
    <3>4. CASE ~ in.lineForm
      BY <2>1, <3>1, <3>2, <3>4 DEF text, Text
    <3> QED
      BY <3>3, <3>4
  <2>3. o \in Scanned(text)
    BY <2>1, <2>2, ScanIs DEF o
  <2>4. s \in Text
    <3>1. CASE in.lineForm
      <4>1. o.rest \in Int /\ o.rest >= 1 /\ Len(text) \in Int
        BY <2>2, <2>3, CodeIs DEF Scanned
      <4>2. \A i \in o.rest..Len(text) : text[i] \in Token
        BY <2>2, <4>1, CodeIs
      <4>3. SubSeq(text, o.rest, Len(text)) \in Seq(Token)
        BY <4>1, <4>2, SubSeqProperties
      <4> QED
        BY <3>1, <4>3 DEF s, Text
    <3>2. CASE ~ in.lineForm
      BY <2>1, <3>2 DEF s
    <3> QED
      BY <3>1, <3>2
  <2>5. Len(st) \in Nat /\ st = [k \in 1..Len(st) |-> st[k]]
    BY <2>4, SplitIs DEF st
  <2>6. Len(st) > 0
    <3>1. Len(st) = 0 => st = <<>>
      <4> SUFFICES ASSUME Len(st) = 0 PROVE st = <<>>
        OBVIOUS
      <4>1. 1..Len(st) = {}
        OBVIOUS
      <4> QED
        BY <2>5, <4>1
    <3> QED
      BY <1>7, <2>5, <3>1
  <2>7. CanBind(s)
    <3>1. \A k \in 1..Len(SplitStatements(s)) : CanBind(SplitStatements(s)[k].toks)
      BY <1>7 DEF st
    <3> QED
      BY <2>4, <3>1, CanBindAll
  <2>8. PICK t \in Text : t = s
    BY <2>4
  <2>9. PICK q : q = st
    OBVIOUS
  <2>10. SplitStatements(t) = q /\ sql' = t /\ bound' = [k \in 1..Len(q) |-> Bind(q[k])]
    BY <1>7, <2>8, <2>9 DEF st
  <2>11. CanBind(sql)'
    <3>1. ns' = ns
      BY <1>1
    <3>2. \A m : KindOf(m)' = KindOf(m)
      BY <3>1 DEF KindOf
    <3>3. Markers(sql)' = Markers(t) /\ Fields(sql)' = Fields(t)
      BY <2>10 DEF Markers, Fields, BraceIdent
    <3>4. CanBind(t)
      BY <2>7, <2>8
    <3> QED
      BY <3>2, <3>3, <3>4 DEF CanBind
  <2>12. /\ Len(q) \in Nat /\ Len(q) > 0 /\ Len(bound') = Len(q)
         /\ bound' = [k \in 1..Len(bound') |-> bound'[k]]
    <3>1. Len(q) \in Nat /\ Len(q) > 0
      BY <2>5, <2>6, <2>9
    <3>2. Len(bound') = Len(q)
      BY <2>10, <3>1
    <3>3. bound' = [k \in 1..Len(q) |-> bound'[k]]
      BY <2>10
    <3> QED
      BY <3>1, <3>2, <3>3
  <2>13. opts' \in SUBSET OptTok
    BY <1>7, <2>3 DEF Scanned, OptTok
  <2>14. CellTypeOK'
    BY <1>1, <1>2, <1>3, <1>5, <1>7, <2>8, <2>10, <2>12, <2>13 DEF CellTypeOK
  <2>15. BoundFirst'
    <3>1. SplitStatements(sql)' = q
      BY <2>10
    <3>2. \A x : Bind(x)' = Bind(x)
      OBVIOUS
    <3>3. Begun'
      BY <1>3, <1>7 DEF Begun
    <3>4. (bound = [k \in 1..Len(SplitStatements(sql)) |-> Bind(SplitStatements(sql)[k])])'
      BY <2>10, <3>1, <3>2
    <3> QED
      BY <2>11, <3>3, <3>4 DEF BoundFirst
  <2>16. Progress'
    BY <1>1, <1>3, <1>5, <1>7, <2>12 DEF Progress, Running
  <2> QED
    BY <1>4, <2>14, <2>15, <2>16 DEF CellInv
<1> QED
  BY <1>1, <1>6, <1>7

\* What is bound stays bound while the statements run.
LEMMA BoundStays ==
    ASSUME CellInv, Begun, UNCHANGED <<in, ns, opts, sql, bound>>,
           stage' # "new", out' # "usage"
    PROVE  BoundFirst'
<1>1. /\ bound = [k \in 1..Len(SplitStatements(sql)) |-> Bind(SplitStatements(sql)[k])]
      /\ CanBind(sql)
  BY DEF CellInv, BoundFirst
<1>2. CanBind(sql)'
  BY <1>1 DEF CanBind, KindOf
<1>3. Begun'
  BY DEF Begun
<1>4. (bound = [k \in 1..Len(SplitStatements(sql)) |-> Bind(SplitStatements(sql)[k])])'
  BY <1>1
<1> QED
  BY <1>2, <1>3, <1>4 DEF BoundFirst

\* A step after the binding that keeps the types, the progress and the blame.
LEMMA BegunKeeps ==
    ASSUME CellInv, Begun, UNCHANGED <<in, ns, opts, sql, bound>>,
           stage' # "new", out' # "usage", CellTypeOK', Progress', BlameIsRight'
    PROVE  CellInv'
  BY BoundStays DEF CellInv

\* One statement: Spark runs it, refuses it, or is interrupted.
LEMMA RunStatementKeeps == CellInv /\ RunStatement => CellInv'
<1> SUFFICES ASSUME CellInv, RunStatement PROVE CellInv'
  OBVIOUS
<1> DEFINE k == Len(ran) + 1
           P == {Parsed(bound[i]) : i \in 1..Len(bound)}
           more == Append(ran, Parsed(bound[k]))
<1>1. /\ stage = "run" /\ UNCHANGED <<in, ns, opts, sql, bound, cached, view, variable>>
      /\ \/ /\ ran' = more
            /\ stage' = IF k = Len(bound) THEN "materialize" ELSE "run"
            /\ UNCHANGED <<out, blame>>
         \/ /\ Fail("error") /\ Reraise(k) /\ UNCHANGED ran
         \/ /\ Fail("interrupt") /\ ran' \in {ran, more} /\ UNCHANGED blame
  BY DEF RunStatement
<1>2. CellTypeOK /\ Progress /\ BlameIsRight
  BY DEF CellInv
<1>3. /\ out = "none" /\ ~ variable /\ blame = NoBlame /\ Begun
      /\ Len(ran) \in Nat /\ Len(bound) \in Nat /\ Len(ran) < Len(bound)
      /\ ran \in Seq(P) /\ k \in 1..Len(bound) /\ k = Len(ran) + 1
  <2>1. /\ ran \in Seq(P) /\ Len(bound) \in Nat
    BY <1>2 DEF CellTypeOK
  <2>2. /\ out = "none" /\ ~ variable /\ blame = NoBlame /\ Len(ran) < Len(bound)
    BY <1>1, <1>2 DEF Progress
  <2>3. Len(ran) \in Nat
    <3> HIDE DEF P
    <3> QED
      BY <2>1
  <2>4. k \in 1..Len(bound)
    <3> HIDE DEF P
    <3> QED
      BY <2>1, <2>2, <2>3
  <2>5. Begun
    BY <1>1, <2>2 DEF Begun
  <2> QED
    BY <2>1, <2>2, <2>3, <2>4, <2>5
<1>4. blame \in BlameSet /\ blame.stmt = 0
  BY <1>3, NoBlameIs
<1>5. more \in Seq(P) /\ Len(more) = k
  <2>1. Parsed(bound[k]) \in P
    BY <1>3
  <2> HIDE DEF P
  <2> QED
    BY <1>3, <2>1, AppendProperties
<1>6. {Parsed(bound'[i]) : i \in 1..Len(bound')} = P
  BY <1>1
<1>7. /\ in' \in [line : Lines, cell : Cells, lineForm : BOOLEAN] /\ ns' \in [Name -> Kind]
      /\ opts' \in SUBSET OptTok /\ sql' \in Text
      /\ bound' = [i \in 1..Len(bound') |-> bound'[i]] /\ Len(bound') \in Nat
      /\ cached' \in {"no", "checkpoint", "cache"} /\ view' \in BOOLEAN /\ variable' \in BOOLEAN
  BY <1>1, <1>2 DEF CellTypeOK
<1> HIDE DEF P, more, k
<1>8. ASSUME ran' \in Seq(P), stage' \in {"run", "materialize", "done"},
             out' \in {"none", "error", "interrupt"},
             blame' \in BlameSet
      PROVE  CellTypeOK'
  <2>1. ran' \in Seq({Parsed(bound'[i]) : i \in 1..Len(bound')})
    BY <1>6, <1>8
  <2> QED
    BY <1>7, <1>8, <2>1 DEF CellTypeOK, Running
<1>9. CASE /\ ran' = more
           /\ stage' = IF k = Len(bound) THEN "materialize" ELSE "run"
           /\ UNCHANGED <<out, blame>>
  <2>1. CellTypeOK'
    BY <1>3, <1>4, <1>5, <1>8, <1>9
  <2>2. Progress'
    BY <1>1, <1>3, <1>5, <1>9 DEF Progress, Running
  <2>3. BlameIsRight'
    BY <1>4, <1>9 DEF BlameIsRight
  <2> QED
    BY <1>1, <1>3, <1>9, <2>1, <2>2, <2>3, BegunKeeps
<1>10. CASE Fail("error") /\ Reraise(k) /\ UNCHANGED ran
  <2>1. stage' = "done" /\ out' = "error"
    BY <1>10 DEF Fail
  <2>2. /\ blame' \in BlameSet
        /\ blame'.stmt # 0 => /\ Len(ran) >= blame'.stmt - 1
                              /\ blame'.sure /\ blame'.width # 0 => Points(sql, blame')
    BY <1>3, <1>10, ReraiseIsRight
  <2>3. CellTypeOK'
    BY <1>3, <1>8, <1>10, <2>1, <2>2
  <2>4. Progress'
    BY <1>1, <1>3, <1>10, <2>1 DEF Progress, Running
  <2>5. BlameIsRight'
    BY <1>1, <1>10, <2>2 DEF BlameIsRight, Points
  <2> QED
    BY <1>1, <1>3, <2>1, <2>3, <2>4, <2>5, BegunKeeps
<1>11. CASE Fail("interrupt") /\ ran' \in {ran, more} /\ UNCHANGED blame
  <2>1. stage' = "done" /\ out' = "interrupt"
    BY <1>11 DEF Fail
  <2>2. CellTypeOK'
    BY <1>3, <1>4, <1>5, <1>8, <1>11, <2>1
  <2>3. Progress'
    BY <1>1, <1>3, <1>5, <1>11, <2>1 DEF Progress, Running
  <2>4. BlameIsRight'
    BY <1>4, <1>11 DEF BlameIsRight
  <2> QED
    BY <1>1, <1>3, <2>1, <2>2, <2>3, <2>4, BegunKeeps
<1> QED
  BY <1>1, <1>9, <1>10, <1>11

\* A failure after the last statement is blamed on it.
LEMMA LateFailureKeeps == CellInv /\ LateFailure => CellInv'
<1> SUFFICES ASSUME CellInv, LateFailure PROVE CellInv'
  OBVIOUS
<1>1. /\ stage \in {"materialize", "view", "show"}
      /\ UNCHANGED <<in, ns, opts, sql, bound, ran, cached, view, variable>>
      /\ \/ Fail("error") /\ Reraise(Len(bound))
         \/ Fail("interrupt") /\ UNCHANGED blame
  BY DEF LateFailure
<1>2. CellTypeOK /\ Progress /\ BlameIsRight
  BY DEF CellInv
<1>3. /\ out = "none" /\ ~ variable /\ blame = NoBlame /\ Begun
      /\ Len(ran) = Len(bound) /\ Len(bound) \in Nat /\ Len(bound) > 0
  BY <1>1, <1>2 DEF CellTypeOK, Progress, Begun, Running
<1>4. stage' = "done" /\ out' \in {"error", "interrupt"}
  BY <1>1 DEF Fail
<1>5. /\ blame' \in BlameSet
      /\ blame'.stmt # 0 => /\ Len(ran) >= blame'.stmt - 1
                            /\ blame'.sure /\ blame'.width # 0 => Points(sql, blame')
  <2>1. CASE UNCHANGED blame
    BY <1>3, <2>1, NoBlameIs
  <2>2. CASE Reraise(Len(bound)) /\ Len(bound) # 0
    <3> DEFINE k == Len(bound)
    <3>1. k \in 1..Len(bound) /\ Len(ran) >= k - 1 /\ Reraise(k)
      BY <1>3, <2>2
    <3> HIDE DEF k
    <3> QED
      BY <1>3, <3>1, ReraiseIsRight
  <2>3. Len(bound) # 0
    BY <1>3
  <2> QED
    BY <1>1, <2>1, <2>2, <2>3
<1>6. CellTypeOK'
  BY <1>1, <1>2, <1>4, <1>5 DEF CellTypeOK
<1>7. Progress'
  BY <1>1, <1>3, <1>4 DEF Progress, Running
<1>8. BlameIsRight'
  BY <1>1, <1>5 DEF BlameIsRight, Points
<1> QED
  BY <1>1, <1>3, <1>4, <1>6, <1>7, <1>8, BegunKeeps

\* The steps after the last statement: only the assignment touches the variable.
LEMMA LateStepKeeps ==
    CellInv /\ (Materialize \/ CreateView \/ Show \/ AssignVariable) => CellInv'
<1> SUFFICES ASSUME CellInv, Materialize \/ CreateView \/ Show \/ AssignVariable
             PROVE  CellInv'
  OBVIOUS
<1>1. CellTypeOK /\ Progress /\ BlameIsRight
  BY DEF CellInv
<1>2. /\ stage \in Running /\ UNCHANGED <<in, ns, opts, sql, bound, ran, blame>>
      /\ cached' \in {cached, "no", "checkpoint", "cache"}
      /\ view' \in BOOLEAN
      /\ \/ stage' \in Running /\ UNCHANGED <<out, variable>>
         \/ stage' = "done" /\ out' = "ok" /\ variable' = ~ in.lineForm
  <2>1. view \in BOOLEAN
    BY <1>1 DEF CellTypeOK
  <2>2. CASE Materialize
    BY <2>1, <2>2 DEF Materialize, Running
  <2>3. CASE CreateView
    <3>1. view' \in BOOLEAN
      BY <2>3 DEF CreateView
    <3> QED
      BY <2>3, <3>1 DEF CreateView, Running
  <2>4. CASE Show
    BY <2>1, <2>4 DEF Show, Running
  <2>5. CASE AssignVariable
    BY <2>1, <2>5 DEF AssignVariable, Running
  <2> QED
    BY <2>2, <2>3, <2>4, <2>5
<1>3. Begun /\ stage' # "new" /\ out' # "usage"
  BY <1>1, <1>2 DEF Progress, Begun, Running
<1>4. CellTypeOK'
  <2>1. in.lineForm \in BOOLEAN
    BY <1>1 DEF CellTypeOK
  <2>2. variable' \in BOOLEAN
    BY <1>1, <1>2 DEF CellTypeOK
  <2> QED
    BY <1>1, <1>2, <2>2 DEF CellTypeOK
<1>5. Progress'
  <2>1. /\ Len(ran) = Len(bound) /\ Len(bound) > 0 /\ out = "none" /\ ~ variable
        /\ blame = NoBlame /\ Len(bound) \in Nat
    BY <1>1, <1>2 DEF Progress, CellTypeOK
  <2>2. CASE stage' \in Running /\ UNCHANGED <<out, variable>>
    BY <1>2, <2>1, <2>2 DEF Progress, Running
  <2>3. CASE stage' = "done" /\ out' = "ok" /\ variable' = ~ in.lineForm
    <3>1. variable' => ~ in.lineForm'
      BY <1>2, <2>3, Zenon
    <3> QED
      BY <1>2, <2>1, <2>3, <3>1 DEF Progress, Running
  <2> QED
    BY <1>2, <2>2, <2>3
<1>6. BlameIsRight'
  BY <1>1, <1>2 DEF BlameIsRight
<1> QED
  BY <1>2, <1>3, <1>4, <1>5, <1>6, BegunKeeps

\* Every step keeps the invariant.
LEMMA CellNextKeeps == CellInv /\ [CellNext]_cellVars => CellInv'
<1> SUFFICES ASSUME CellInv, [CellNext]_cellVars PROVE CellInv'
  OBVIOUS
<1>1. CASE UNCHANGED cellVars
  <2>1. /\ UNCHANGED <<in, ns, stage, opts, sql, bound>>
        /\ UNCHANGED <<ran, cached, view, variable, out, blame>>
        /\ CellTypeOK /\ BoundFirst /\ Progress /\ BlameIsRight
    BY <1>1 DEF cellVars, CellInv
  <2>2. CellTypeOK' /\ Progress' /\ BlameIsRight'
    BY <2>1 DEF CellTypeOK, Progress, BlameIsRight
  <2>3. BoundFirst'
    BY <2>1 DEF BoundFirst, Begun, CanBind, KindOf
  <2> QED
    BY <2>2, <2>3 DEF CellInv
<1>2. CASE CellNext
  BY <1>2, StartKeeps, RunStatementKeeps, LateFailureKeeps, LateStepKeeps DEF CellNext
<1> QED
  BY <1>1, <1>2

\* The invariant holds always.
LEMMA CellInvariant == CellSpec => []CellInv
  BY CellInitInv, CellNextKeeps, PTL DEF CellSpec

\* Type correctness.
THEOREM CellTypeCorrect == CellSpec => []CellTypeOK
<1>1. CellInv => CellTypeOK
  BY DEF CellInv
<1> QED
  BY <1>1, CellInvariant, PTL

\* bind_parameters() of every statement comes before the first session.sql(): nothing
\* runs unless the variables of the whole cell can be bound.
THEOREM BindsBeforeRun == CellSpec => []BindBeforeRun
<1>1. CellInv => BindBeforeRun
  BY DEF CellInv, BoundFirst, BindBeforeRun
<1> QED
  BY <1>1, CellInvariant, PTL

\* The position _reraise() reports is one in the cell, and the token there is the one
\* Spark meant; all statements before the failed one have run.
THEOREM BlamesRight == CellSpec => []BlameIsRight
<1>1. CellInv => BlameIsRight
  BY DEF CellInv
<1> QED
  BY <1>1, CellInvariant, PTL

\* The variable of a cell changes only when every statement ran and nothing after them
\* failed, and never in the line form.
THEOREM SuccessAssigns == CellSpec => []VariableOnlyOnSuccess
<1>1. CellInv => VariableOnlyOnSuccess
  BY DEF CellInv, Progress, VariableOnlyOnSuccess
<1> QED
  BY <1>1, CellInvariant, PTL

\* Induction from the end: what holds of a position whenever it holds of all later ones
\* holds of all.
LEMMA Backwards ==
    ASSUME NEW n \in Nat, NEW S, n + 1 \in S,
           \A i \in 1..n : (\A j \in (i + 1)..(n + 1) : j \in S) => i \in S
    PROVE  \A i \in 1..(n + 1) : i \in S
<1> DEFINE C == {i \in 1..(n + 1) : i \notin S}
<1>1. ASSUME C # {} PROVE FALSE
  <2>1. C \subseteq Nat /\ \A x \in C : x <= n + 1
    OBVIOUS
  <2> DEFINE m == Max(C)
  <2>2. m \in C /\ \A y \in C : m >= y
    <3>1. n + 1 \in Nat
      OBVIOUS
    <3> HIDE DEF C
    <3> QED
      BY <1>1, <2>1, <3>1, LargestOfNats
  <2> HIDE DEF m
  <2>3. m \in 1..n
    BY <2>2
  <2>4. \A j \in (m + 1)..(n + 1) : j \in S
    <3> SUFFICES ASSUME NEW j \in (m + 1)..(n + 1), j \notin S PROVE FALSE
      OBVIOUS
    <3>1. j \in C /\ ~ (m >= j)
      BY <2>3
    <3> QED
      BY <2>2, <3>1
  <2> QED
    BY <2>2, <2>3, <2>4
<1> QED
  BY <1>1

\* Gather exists, and is what its definition says.
LEMMA GatherIs ==
    ASSUME NEW n \in Nat, NEW T, NEW read,
           \A i \in 1..n : read[i].put \in Seq(T) /\ read[i].next \in (i + 1)..(n + 1)
    PROVE  /\ Gather(n, read)[n + 1] = <<>>
           /\ \A i \in 1..n :
                 Gather(n, read)[i] = read[i].put \o Gather(n, read)[read[i].next]
           /\ \A i \in 1..(n + 1) : Gather(n, read)[i] \in Seq(T)
<1> DEFINE Body(g, i) == IF i > n THEN <<>> ELSE read[i].put \o g[read[i].next]
           From(i) == \E g : g = [j \in i..(n + 1) |-> Body(g, j)]
           S == {i \in 1..(n + 1) : From(i)}
<1>1. n + 1 \in S
  <2> DEFINE g == [j \in (n + 1)..(n + 1) |-> <<>>]
  <2>1. g = [j \in (n + 1)..(n + 1) |-> Body(g, j)]
    <3>1. \A j \in (n + 1)..(n + 1) : Body(g, j) = <<>>
      OBVIOUS
    <3> HIDE DEF Body
    <3> QED
      BY <3>1
  <2>2. From(n + 1)
    BY <2>1
  <2> HIDE DEF From
  <2> QED
    BY <2>2
<1>2. ASSUME NEW i \in 1..n, \A j \in (i + 1)..(n + 1) : j \in S PROVE i \in S
  <2>1. From(i + 1)
    <3> HIDE DEF From
    <3> QED
      BY <1>2
  <2>2. PICK g : g = [j \in (i + 1)..(n + 1) |-> Body(g, j)]
    BY <2>1
  <2> DEFINE h == [j \in i..(n + 1) |-> IF j = i THEN Body(g, i) ELSE g[j]]
  <2>3. ASSUME NEW j \in i..(n + 1) PROVE h[j] = Body(h, j)
    <3>1. h[j] = Body(g, j)
      <4>1. j = i \/ j \in (i + 1)..(n + 1)
        OBVIOUS
      <4> HIDE DEF Body
      <4> QED
        BY <2>2, <4>1
    <3>2. CASE j > n
      BY <3>1, <3>2
    <3>3. CASE ~ (j > n)
      <4>1. read[j].next \in (i + 1)..(n + 1)
        BY <3>3
      <4>2. h[read[j].next] = g[read[j].next]
        BY <4>1
      <4> QED
        BY <3>1, <3>3, <4>2
    <3> QED
      BY <3>2, <3>3
  <2>4. h = [j \in i..(n + 1) |-> Body(h, j)]
    <3>1. h = [j \in i..(n + 1) |-> h[j]]
      OBVIOUS
    <3> HIDE DEF h, Body
    <3> QED
      BY <2>3, <3>1
  <2>5. From(i)
    <3> HIDE DEF h, Body
    <3> QED
      BY <2>4
  <2> HIDE DEF From
  <2> QED
    BY <2>5
<1>3. From(1)
  <2>1. \A i \in 1..(n + 1) : i \in S
    <3> HIDE DEF S
    <3> QED
      BY <1>1, <1>2, Backwards
  <2>2. 1 \in S
    <3> HIDE DEF S
    <3> QED
      BY <2>1
  <2> HIDE DEF From
  <2> QED
    BY <2>2
<1> HIDE DEF S, From
<1> DEFINE w == Gather(n, read)
<1>4. w = [i \in 1..(n + 1) |-> Body(w, i)]
  <2> DEFINE c == CHOOSE g : g = [i \in 1..(n + 1) |-> Body(g, i)]
  <2>1. c = [i \in 1..(n + 1) |-> Body(c, i)]
    <3> HIDE DEF Body
    <3> QED
      BY <1>3 DEF From
  <2>2. w = c
    BY DEF Gather
  <2> QED
    BY <2>1, <2>2
<1> HIDE DEF w
<1>5. \A i \in 1..(n + 1) : w[i] = Body(w, i)
  <2> HIDE DEF Body
  <2> QED
    BY <1>4
<1>6. w[n + 1] = <<>>
  BY <1>5
<1>7. ASSUME NEW i \in 1..n PROVE w[i] = read[i].put \o w[read[i].next]
  <2>1. i \in 1..(n + 1) /\ ~ (i > n)
    OBVIOUS
  <2>2. w[i] = Body(w, i)
    <3> HIDE DEF Body
    <3> QED
      BY <1>5, <2>1
  <2> QED
    BY <2>1, <2>2
<1> HIDE DEF Body
<1> DEFINE R == {i \in 1..(n + 1) : w[i] \in Seq(T)}
<1>8. n + 1 \in R
  <2>1. w[n + 1] \in Seq(T)
    BY <1>6, EmptySeq
  <2> QED
    BY <2>1
<1>9. ASSUME NEW i \in 1..n, \A j \in (i + 1)..(n + 1) : j \in R PROVE i \in R
  <2>1. read[i].put \in Seq(T) /\ w[read[i].next] \in Seq(T)
    BY <1>9
  <2>2. read[i].put \o w[read[i].next] \in Seq(T)
    BY <2>1, ConcatProperties
  <2>3. w[i] \in Seq(T)
    BY <1>7, <2>2
  <2> QED
    BY <2>3
<1>10. \A i \in 1..(n + 1) : i \in R
  <2> HIDE DEF R
  <2> QED
    BY <1>8, <1>9, Backwards
<1> QED
  BY <1>6, <1>7, <1>10 DEF w

\* What the readings of a text are made of.
Word == Token \cup {"str2", "tempview", "broken"}
Words == Seq(Word)

LEMMA WordsAre ==
    ASSUME NEW s \in Words
    PROVE  Len(s) \in Nat /\ \A i \in 1..Len(s) : s[i] \in Word
  BY DEF Words

LEMMA TextIsWords == Text \subseteq Words
<1>1. Token \subseteq Word
  BY DEF Word
<1> QED
  BY <1>1, SeqMonotonic DEF Text, Words

\* Concatenation, as it is needed here.
LEMMA Concats ==
    /\ <<>> \in Words
    /\ \A h \in Word : <<h>> \in Words
    /\ \A x \in Words : x \o <<>> = x /\ <<>> \o x = x
    /\ \A x \in Words, y \in Words : x \o y \in Words
    /\ \A x \in Words, y \in Words, z \in Words : (x \o y) \o z = x \o (y \o z)
<1>1. <<>> \in Words
  BY EmptySeq DEF Words
<1>2. \A h \in Word : <<h>> \in Words
  BY DEF Words
<1>3. \A x \in Words : x \o <<>> = x /\ <<>> \o x = x
  BY ConcatEmptySeq DEF Words
<1>4. \A x \in Words, y \in Words : x \o y \in Words
  BY ConcatProperties DEF Words
<1>5. \A x \in Words, y \in Words, z \in Words : (x \o y) \o z = x \o (y \o z)
  BY ConcatAssociative DEF Words
<1> QED
  BY <1>1, <1>2, <1>3, <1>4, <1>5

\* Where a {name} reference is.
Refers(s, i) == i + 2 <= Len(s) /\ s[i] = "lb" /\ IsIdent(s[i + 1]) /\ s[i + 2] = "rb"

LEMMA BraceIs ==
    ASSUME NEW s, NEW i \in Nat
    PROVE  BraceIdent(s, i) # 0 <=> Refers(s, i)
  BY DEF BraceIdent, Refers

\* What a word adds to the code.
Kept(h) == IF IsCode(h) THEN <<h>> ELSE <<>>

\* The code of a text, position by position.
CodeFrom(s) == Gather(Len(s), [i \in 1..Len(s) |-> CodeAt(s, i)])

LEMMA CodeFromIs ==
    ASSUME NEW s \in Words
    PROVE  /\ CodeOf(s) = CodeFrom(s)[1]
           /\ CodeFrom(s)[Len(s) + 1] = <<>>
           /\ \A i \in 1..Len(s) :
                 CodeFrom(s)[i] = Kept(s[i]) \o CodeFrom(s)[i + 1]
           /\ \A i \in 1..(Len(s) + 1) : CodeFrom(s)[i] \in Words
<1> DEFINE n == Len(s)
           Put(i) == Kept(s[i])
           read == [i \in 1..n |-> CodeAt(s, i)]
<1>1. n \in Nat /\ \A i \in 1..n : s[i] \in Word
  BY WordsAre
<1>2. \A i \in 1..n : read[i].put = Put(i) /\ read[i].next = i + 1
  BY DEF CodeAt, Kept
<1>3. \A i \in 1..n : Put(i) \in Seq(Word)
  BY <1>1, Concats DEF Words, Kept
<1> HIDE DEF read, Put
<1>4. \A i \in 1..n : read[i].put \in Seq(Word) /\ read[i].next \in (i + 1)..(n + 1)
  BY <1>1, <1>2, <1>3
<1> DEFINE g == Gather(n, read)
<1>5. /\ g[n + 1] = <<>>
      /\ \A i \in 1..n : g[i] = read[i].put \o g[read[i].next]
      /\ \A i \in 1..(n + 1) : g[i] \in Seq(Word)
  <2> HIDE DEF n
  <2> QED
    BY <1>1, <1>4, GatherIs
<1>6. g = CodeFrom(s)
  BY DEF CodeFrom, read
<1>7. CodeOf(s) = CodeFrom(s)[1]
  BY DEF CodeOf, CodeFrom
<1> HIDE DEF g
<1>8. \A i \in 1..n : g[i] = Put(i) \o g[i + 1]
  BY <1>2, <1>5
<1> QED
  BY <1>5, <1>6, <1>7, <1>8 DEF Put, Words

\* What the user meant, position by position.
MeantFrom(s) == Gather(Len(s), [i \in 1..Len(s) |-> MeantAt(s, i)])

LEMMA MeantFromIs ==
    ASSUME NEW s \in Words
    PROVE  /\ Meant(s) = MeantFrom(s)[1]
           /\ MeantFrom(s)[Len(s) + 1] = <<>>
           /\ \A i \in 1..Len(s) :
                 /\ Refers(s, i) => MeantFrom(s)[i] = <<"tempview">> \o MeantFrom(s)[i + 3]
                 /\ ~ Refers(s, i) => MeantFrom(s)[i] =
                       Kept(s[i]) \o MeantFrom(s)[i + 1]
           /\ \A i \in 1..(Len(s) + 1) : MeantFrom(s)[i] \in Words
<1> DEFINE n == Len(s)
           Put(i) == Kept(s[i])
           read == [i \in 1..n |-> MeantAt(s, i)]
<1>1. n \in Nat /\ \A i \in 1..n : s[i] \in Word
  BY WordsAre
<1>2. \A i \in 1..n : Refers(s, i) =>
         read[i].put = <<"tempview">> /\ read[i].next = i + 3
  BY <1>1, BraceIs DEF MeantAt
<1>3. \A i \in 1..n : ~ Refers(s, i) => read[i].put = Put(i) /\ read[i].next = i + 1
  BY <1>1, BraceIs DEF MeantAt, CodeAt, Kept
<1>4. \A i \in 1..n : Put(i) \in Seq(Word)
  BY <1>1, Concats DEF Words, Kept
<1>5. <<"tempview">> \in Seq(Word)
  BY Concats DEF Word, Words
<1> HIDE DEF read, Put
<1>6. \A i \in 1..n : Refers(s, i) => i + 3 \in (i + 1)..(n + 1)
  BY <1>1 DEF Refers
<1>7. ASSUME NEW i \in 1..n
      PROVE  read[i].put \in Seq(Word) /\ read[i].next \in (i + 1)..(n + 1)
  <2>1. i + 1 \in (i + 1)..(n + 1)
    BY <1>1
  <2> QED
    BY <1>2, <1>3, <1>4, <1>5, <1>6, <2>1
<1> DEFINE g == Gather(n, read)
<1>8. /\ g[n + 1] = <<>>
      /\ \A i \in 1..n : g[i] = read[i].put \o g[read[i].next]
      /\ \A i \in 1..(n + 1) : g[i] \in Seq(Word)
  <2> HIDE DEF n
  <2> QED
    BY <1>1, <1>7, GatherIs
<1>9. g = MeantFrom(s)
  BY DEF MeantFrom, read
<1>10. Meant(s) = MeantFrom(s)[1]
  BY DEF Meant, MeantFrom
<1> HIDE DEF g
<1>11. \A i \in 1..n : ~ Refers(s, i) => g[i] = Put(i) \o g[i + 1]
  BY <1>3, <1>8
<1>12. \A i \in 1..n : Refers(s, i) => g[i] = <<"tempview">> \o g[i + 3]
  BY <1>2, <1>8
<1> QED
  BY <1>8, <1>9, <1>10, <1>11, <1>12 DEF Put, Words

\* The code of a text with a word before it.
LEMMA CodeCons ==
    ASSUME NEW h \in Word, NEW y \in Words
    PROVE  CodeOf(<<h>> \o y) = Kept(h) \o CodeOf(y)
<1> DEFINE x == <<h>> \o y
           n == Len(y)
           f == CodeFrom(x)
           g == CodeFrom(y)
           S == {i \in 1..(n + 1) : f[i + 1] = g[i]}
<1>1. n \in Nat /\ y \in Seq(Word)
  BY WordsAre DEF Words
<1>2. /\ x \in Words /\ Len(x) = n + 1 /\ x[1] = h
      /\ \A i \in 1..n : x[i + 1] = y[i]
  <2>1. <<h>> \in Seq(Word) /\ Len(<<h>>) = 1 /\ <<h>>[1] = h
    OBVIOUS
  <2>2. /\ x \in Seq(Word) /\ Len(x) = 1 + n
        /\ \A i \in 1..(1 + n) : x[i] = IF i <= 1 THEN <<h>>[i] ELSE y[i - 1]
    BY <1>1, <2>1, ConcatProperties
  <2> HIDE DEF x
  <2> QED
    BY <1>1, <2>1, <2>2 DEF Words
<1>3. /\ CodeOf(x) = f[1] /\ f[Len(x) + 1] = <<>>
      /\ \A i \in 1..Len(x) : f[i] = Kept(x[i]) \o f[i + 1]
  <2> HIDE DEF x
  <2> QED
    BY <1>2, CodeFromIs
<1>4. /\ CodeOf(y) = g[1] /\ g[n + 1] = <<>>
      /\ \A i \in 1..n : g[i] = Kept(y[i]) \o g[i + 1]
  BY CodeFromIs
<1> HIDE DEF x, n, f, g
<1>5. n + 1 \in S
  <2>1. Len(x) + 1 = (n + 1) + 1
    BY <1>2
  <2>2. f[(n + 1) + 1] = g[n + 1]
    BY <1>3, <1>4, <2>1
  <2> QED
    BY <1>1, <2>2
<1>6. ASSUME NEW i \in 1..n, \A j \in (i + 1)..(n + 1) : j \in S PROVE i \in S
  <2>1. f[(i + 1) + 1] = g[i + 1]
    <3>1. i + 1 \in S
      <4> HIDE DEF S
      <4> QED
        BY <1>1, <1>6
    <3> QED
      BY <3>1
  <2>2. x[i + 1] = y[i] /\ i + 1 \in 1..Len(x)
    BY <1>1, <1>2
  <2>3. f[i + 1] = Kept(x[i + 1]) \o f[(i + 1) + 1]
    BY <1>3, <2>2
  <2>4. f[i + 1] = g[i]
    BY <1>4, <2>1, <2>2, <2>3
  <2>5. i \in 1..(n + 1)
    BY <1>1
  <2> QED
    BY <2>4, <2>5
<1>7. \A i \in 1..(n + 1) : i \in S
  <2> HIDE DEF S
  <2> QED
    BY <1>1, <1>5, <1>6, Backwards
<1>8. f[2] = g[1]
  <2>1. 1 \in S
    <3> HIDE DEF S
    <3> QED
      BY <1>1, <1>7
  <2>2. f[1 + 1] = g[1]
    BY <2>1
  <2> QED
    BY <2>2
<1>9. f[1] = Kept(h) \o f[2]
  <2>1. 1 \in 1..Len(x) /\ 1 + 1 = 2
    BY <1>1, <1>2
  <2>2. f[1] = Kept(x[1]) \o f[1 + 1]
    BY <1>3, <2>1
  <2> QED
    BY <1>2, <2>1, <2>2
<1> QED
  BY <1>3, <1>4, <1>8, <1>9 DEF x

\* y is what is left of e from position p.
Rest(e, p, y) ==
    /\ p \in 1..(Len(e) + 1) /\ Len(e) = Len(y) + p - 1
    /\ \A j \in 1..Len(y) : e[p + j - 1] = y[j]

\* If h and y are left, then y is left after h.
LEMMA RestAfter ==
    ASSUME NEW e \in Words, NEW p, NEW h \in Words, NEW y \in Words, Rest(e, p, h \o y)
    PROVE  /\ p \in Nat \ {0} /\ p + Len(h) - 1 <= Len(e)
           /\ \A j \in 1..Len(h) : e[p + j - 1] = h[j]
           /\ Rest(e, p + Len(h), y)
<1> DEFINE x == h \o y
           q == p + Len(h)
<1>1. Len(e) \in Nat /\ Len(h) \in Nat /\ Len(y) \in Nat
  BY WordsAre
<1>2. /\ Len(x) = Len(h) + Len(y)
      /\ \A i \in 1..(Len(h) + Len(y)) : x[i] = IF i <= Len(h) THEN h[i] ELSE y[i - Len(h)]
  BY ConcatProperties DEF Words
<1>3. /\ p \in 1..(Len(e) + 1) /\ Len(e) = Len(x) + p - 1
      /\ \A j \in 1..Len(x) : e[p + j - 1] = x[j]
  BY DEF Rest
<1> HIDE DEF x
<1>4. p \in Nat \ {0} /\ q \in 1..(Len(e) + 1) /\ Len(e) = Len(y) + q - 1
  BY <1>1, <1>2, <1>3
<1>5. ASSUME NEW j \in 1..Len(h) PROVE e[p + j - 1] = h[j]
  <2>1. j \in 1..Len(x) /\ j <= Len(h) /\ j \in 1..(Len(h) + Len(y))
    BY <1>1, <1>2
  <2> QED
    BY <1>2, <1>3, <2>1
<1>6. ASSUME NEW j \in 1..Len(y) PROVE e[q + j - 1] = y[j]
  <2> DEFINE k == Len(h) + j
  <2>1. k \in 1..Len(x) /\ ~ (k <= Len(h)) /\ k \in 1..(Len(h) + Len(y)) /\ k - Len(h) = j
    BY <1>1, <1>2
  <2>2. q + j - 1 = p + k - 1
    BY <1>1, <1>4
  <2> HIDE DEF k, q
  <2> QED
    BY <1>2, <1>3, <2>1, <2>2
<1>7. Rest(e, q, y)
  BY <1>4, <1>6 DEF Rest
<1> QED
  BY <1>1, <1>2, <1>3, <1>4, <1>5, <1>7

\* The escaped text, position by position.
EscapeFrom(s) == Gather(Len(s), [i \in 1..Len(s) |-> EscapeAt(s, i)])

\* A token that is not of a reference, escaped.
Escaped(t) ==
    CASE t \in {"lb", "rb"} -> <<t, t>>
      [] t = "str" -> <<"str2">>
      [] OTHER -> <<t>>

LEMMA EscapeFromIs ==
    ASSUME NEW s \in Text
    PROVE  /\ EscapeBraces(s) = EscapeFrom(s)[1]
           /\ EscapeFrom(s)[Len(s) + 1] = <<>>
           /\ \A i \in 1..Len(s) :
                 /\ Refers(s, i) => EscapeFrom(s)[i] = SubSeq(s, i, i + 2) \o EscapeFrom(s)[i + 3]
                 /\ ~ Refers(s, i) => EscapeFrom(s)[i] = Escaped(s[i]) \o EscapeFrom(s)[i + 1]
           /\ \A i \in 1..(Len(s) + 1) : EscapeFrom(s)[i] \in Words
<1> DEFINE n == Len(s)
           Put(i) == Escaped(s[i])
           Ref(i) == SubSeq(s, i, i + 2)
           read == [i \in 1..n |-> EscapeAt(s, i)]
<1>1. n \in Nat /\ \A i \in 1..n : s[i] \in Word
  BY CodeIs DEF Word
<1>2. \A i \in 1..n : Refers(s, i) => read[i].put = Ref(i) /\ read[i].next = i + 3
  <2>1. \A i \in 1..n : BraceIdent(s, i) # 0 <=> Refers(s, i)
    BY <1>1, BraceIs
  <2> HIDE DEF n
  <2> QED
    BY <2>1 DEF EscapeAt
<1>3. \A i \in 1..n : ~ Refers(s, i) => read[i].put = Put(i) /\ read[i].next = i + 1
  BY <1>1, BraceIs DEF EscapeAt, Escaped
<1>4. ASSUME NEW t \in Word PROVE Escaped(t) \in Seq(Word)
  <2>1. <<t, t>> \in Seq(Word) /\ <<t>> \in Seq(Word)
    OBVIOUS
  <2>2. <<"str2">> \in Seq(Word)
    BY DEF Word
  <2>3. Escaped(t) \in {<<t, t>>, <<t>>, <<"str2">>}
    BY DEF Escaped
  <2> QED
    BY <2>1, <2>2, <2>3
<1>5. \A i \in 1..n : Put(i) \in Seq(Word)
  BY <1>1, <1>4
<1>6. ASSUME NEW i \in 1..n, Refers(s, i)
      PROVE  Ref(i) \in Seq(Word) /\ i + 3 \in (i + 1)..(n + 1)
  <2>1. i + 2 <= n
    BY <1>6 DEF Refers
  <2>2. i + 3 \in (i + 1)..(n + 1)
    BY <1>1, <2>1
  <2>3. \A j \in i..(i + 2) : s[j] \in Word
    BY <1>1, <2>1
  <2>4. Ref(i) \in Seq(Word)
    BY <2>3, SubSeqProperties
  <2> QED
    BY <2>2, <2>4
<1> HIDE DEF read, Put, Ref
<1>7. ASSUME NEW i \in 1..n
      PROVE  read[i].put \in Seq(Word) /\ read[i].next \in (i + 1)..(n + 1)
  <2>1. i + 1 \in (i + 1)..(n + 1)
    BY <1>1
  <2> QED
    BY <1>2, <1>3, <1>5, <1>6, <2>1
<1> DEFINE g == Gather(n, read)
<1>8. /\ g[n + 1] = <<>>
      /\ \A i \in 1..n : g[i] = read[i].put \o g[read[i].next]
      /\ \A i \in 1..(n + 1) : g[i] \in Seq(Word)
  <2> HIDE DEF n
  <2> QED
    BY <1>1, <1>7, GatherIs
<1>9. g = EscapeFrom(s)
  BY DEF EscapeFrom, read
<1>10. EscapeBraces(s) = EscapeFrom(s)[1]
  BY DEF EscapeBraces, EscapeFrom
<1> HIDE DEF g
<1>11. \A i \in 1..n : ~ Refers(s, i) => g[i] = Put(i) \o g[i + 1]
  BY <1>3, <1>8
<1>12. \A i \in 1..n : Refers(s, i) => g[i] = Ref(i) \o g[i + 3]
  BY <1>2, <1>8
<1> QED
  BY <1>8, <1>9, <1>10, <1>11, <1>12 DEF Put, Ref, Words

\* The formatted text, position by position.
FormatFrom(s) == Gather(Len(s), [i \in 1..Len(s) |-> FormatAt(s, i)])

LEMMA FormatFromIs ==
    ASSUME NEW s \in Words
    PROVE  /\ Format(s) = FormatFrom(s)[1]
           /\ FormatFrom(s)[Len(s) + 1] = <<>>
           /\ \A i \in 1..Len(s) :
                 /\ s[i] = "str2" => FormatFrom(s)[i] = <<"str">> \o FormatFrom(s)[i + 1]
                 /\ s[i] \notin {"str2", "lb", "rb"} =>
                       FormatFrom(s)[i] = <<s[i]>> \o FormatFrom(s)[i + 1]
                 /\ s[i] \in {"lb", "rb"} /\ i < Len(s) /\ s[i + 1] = s[i] =>
                       FormatFrom(s)[i] = <<s[i]>> \o FormatFrom(s)[i + 2]
                 /\ Refers(s, i) => FormatFrom(s)[i] = <<"tempview">> \o FormatFrom(s)[i + 3]
           /\ \A i \in 1..(Len(s) + 1) : FormatFrom(s)[i] \in Words
<1> DEFINE n == Len(s)
           read == [i \in 1..n |-> FormatAt(s, i)]
           A(i) == s[i] = "str2"
           B(i) == s[i] \notin {"str2", "lb", "rb"}
           C(i) == s[i] \in {"lb", "rb"} /\ i < n /\ s[i + 1] = s[i]
<1>1. n \in Nat /\ \A i \in 1..n : s[i] \in Word
  BY WordsAre
<1>2. ASSUME NEW i \in 1..n
      PROVE  /\ A(i) => FormatAt(s, i) = [put |-> <<"str">>, next |-> i + 1]
             /\ B(i) => FormatAt(s, i) = [put |-> <<s[i]>>, next |-> i + 1]
             /\ C(i) => FormatAt(s, i) = [put |-> <<s[i]>>, next |-> i + 2]
             /\ Refers(s, i) => FormatAt(s, i) = [put |-> <<"tempview">>, next |-> i + 3]
             /\ ~ A(i) /\ ~ B(i) /\ ~ C(i) /\ ~ Refers(s, i) =>
                   FormatAt(s, i) = [put |-> <<"broken">>, next |-> n + 1]
  <2>1. BraceIdent(s, i) # 0 <=> Refers(s, i)
    BY BraceIs
  <2>2. /\ ~ (A(i) /\ B(i)) /\ ~ (A(i) /\ C(i)) /\ ~ (B(i) /\ C(i))
        /\ Refers(s, i) => ~ A(i) /\ ~ B(i) /\ ~ C(i)
    BY DEF Refers, IsIdent
  <2>3. A(i) => FormatAt(s, i) = [put |-> <<"str">>, next |-> i + 1]
    BY <2>1, <2>2 DEF FormatAt
  <2>4. B(i) => FormatAt(s, i) = [put |-> <<s[i]>>, next |-> i + 1]
    BY <2>1, <2>2 DEF FormatAt
  <2>5. C(i) => FormatAt(s, i) = [put |-> <<s[i]>>, next |-> i + 2]
    BY <2>1, <2>2 DEF FormatAt
  <2>6. Refers(s, i) => FormatAt(s, i) = [put |-> <<"tempview">>, next |-> i + 3]
    BY <2>1, <2>2 DEF FormatAt
  <2>7. ~ A(i) /\ ~ B(i) /\ ~ C(i) /\ ~ Refers(s, i) =>
           FormatAt(s, i) = [put |-> <<"broken">>, next |-> n + 1]
    BY <2>1 DEF FormatAt
  <2> HIDE DEF A, B, C
  <2> QED
    BY <2>3, <2>4, <2>5, <2>6, <2>7
<1>3. \A h \in Word : <<h>> \in Seq(Word)
  OBVIOUS
<1>4. {"str", "tempview", "broken"} \subseteq Word
  BY DEF Word, Token, SqlTok
<1>5. \A i \in 1..n : read[i] = FormatAt(s, i)
  OBVIOUS
<1> HIDE DEF read
<1>6. /\ \A i \in 1..n : A(i) => read[i].put = <<"str">> /\ read[i].next = i + 1
      /\ \A i \in 1..n : B(i) => read[i].put = <<s[i]>> /\ read[i].next = i + 1
      /\ \A i \in 1..n : C(i) => read[i].put = <<s[i]>> /\ read[i].next = i + 2
      /\ \A i \in 1..n : Refers(s, i) => read[i].put = <<"tempview">> /\ read[i].next = i + 3
      /\ \A i \in 1..n : ~ A(i) /\ ~ B(i) /\ ~ C(i) /\ ~ Refers(s, i) =>
            read[i].put = <<"broken">> /\ read[i].next = n + 1
  <2> HIDE DEF A, B, C
  <2> QED
    BY <1>2, <1>5
<1>7. ASSUME NEW i \in 1..n
      PROVE  read[i].put \in Seq(Word) /\ read[i].next \in (i + 1)..(n + 1)
  <2>1. /\ i + 1 \in (i + 1)..(n + 1) /\ n + 1 \in (i + 1)..(n + 1)
        /\ C(i) => i + 2 \in (i + 1)..(n + 1)
        /\ Refers(s, i) => i + 3 \in (i + 1)..(n + 1)
    BY <1>1 DEF Refers
  <2>2. /\ <<"str">> \in Seq(Word) /\ <<"tempview">> \in Seq(Word) /\ <<"broken">> \in Seq(Word)
        /\ <<s[i]>> \in Seq(Word)
    BY <1>1, <1>3, <1>4
  <2> HIDE DEF A, B, C
  <2> QED
    BY <1>6, <2>1, <2>2
<1> DEFINE g == Gather(n, read)
<1>8. /\ g[n + 1] = <<>>
      /\ \A i \in 1..n : g[i] = read[i].put \o g[read[i].next]
      /\ \A i \in 1..(n + 1) : g[i] \in Seq(Word)
  <2> HIDE DEF n
  <2> QED
    BY <1>1, <1>7, GatherIs
<1>9. g = FormatFrom(s)
  BY DEF FormatFrom, read
<1>10. Format(s) = FormatFrom(s)[1]
  BY DEF Format, FormatFrom
<1> HIDE DEF g
<1>11. ASSUME NEW i \in 1..n
       PROVE  /\ A(i) => g[i] = <<"str">> \o g[i + 1]
              /\ B(i) => g[i] = <<s[i]>> \o g[i + 1]
              /\ C(i) => g[i] = <<s[i]>> \o g[i + 2]
              /\ Refers(s, i) => g[i] = <<"tempview">> \o g[i + 3]
  <2> HIDE DEF A, B, C
  <2> QED
    BY <1>6, <1>8
<1> QED
  BY <1>8, <1>9, <1>10, <1>11 DEF Words

LEMMA CodeOfNone == CodeOf(<<>>) = <<>>
<1>1. <<>> \in Words /\ Len(<<>>) = 0
  BY Concats
<1>2. CodeOf(<<>>) = CodeFrom(<<>>)[1] /\ CodeFrom(<<>>)[Len(<<>>) + 1] = <<>>
  BY <1>1, CodeFromIs
<1>3. Len(<<>>) + 1 = 1
  BY <1>1
<1> QED
  BY <1>2, <1>3

\* str.format() undoes escape_braces(): of what was escaped, the references alone are
\* replaced.
LEMMA FormatUndoes ==
    ASSUME NEW s \in Text
    PROVE  CodeOf(Format(EscapeBraces(s))) = Meant(s)
<1> DEFINE n == Len(s)
           e == EscapeBraces(s)
           x == EscapeFrom(s)
           f == FormatFrom(e)
           m == MeantFrom(s)
           S == {i \in 1..(n + 1) : \A p : Rest(e, p, x[i]) => CodeOf(f[p]) = m[i]}
<1>1. n \in Nat /\ s \in Words /\ \A i \in 1..n : s[i] \in Token
  BY CodeIs, TextIsWords
<1>2. /\ e = x[1] /\ x[n + 1] = <<>>
      /\ \A i \in 1..n :
            /\ Refers(s, i) => x[i] = SubSeq(s, i, i + 2) \o x[i + 3]
            /\ ~ Refers(s, i) => x[i] = Escaped(s[i]) \o x[i + 1]
      /\ \A i \in 1..(n + 1) : x[i] \in Words
  BY EscapeFromIs
<1>3. e \in Words
  <2>1. 1 \in 1..(n + 1)
    BY <1>1
  <2> HIDE DEF e, x, n
  <2> QED
    BY <1>2, <2>1
<1>4. /\ Meant(s) = m[1] /\ m[n + 1] = <<>>
      /\ \A i \in 1..n :
            /\ Refers(s, i) => m[i] = <<"tempview">> \o m[i + 3]
            /\ ~ Refers(s, i) => m[i] = Kept(s[i]) \o m[i + 1]
  BY <1>1, MeantFromIs
<1> HIDE DEF e, x, n, m
<1>5. /\ Format(e) = f[1] /\ f[Len(e) + 1] = <<>>
      /\ \A i \in 1..Len(e) :
            /\ e[i] = "str2" => f[i] = <<"str">> \o f[i + 1]
            /\ e[i] \notin {"str2", "lb", "rb"} => f[i] = <<e[i]>> \o f[i + 1]
            /\ e[i] \in {"lb", "rb"} /\ i < Len(e) /\ e[i + 1] = e[i] =>
                  f[i] = <<e[i]>> \o f[i + 2]
            /\ Refers(e, i) => f[i] = <<"tempview">> \o f[i + 3]
      /\ \A i \in 1..(Len(e) + 1) : f[i] \in Words
  BY <1>3, FormatFromIs
<1>6. Len(e) \in Nat
  BY <1>3, WordsAre
<1> HIDE DEF f
<1>7. ASSUME NEW i, NEW j, j \in S, NEW p, NEW q, Rest(e, q, x[j]), NEW w \in Word,
             f[p] = <<w>> \o f[q], m[i] = Kept(w) \o m[j]
      PROVE  CodeOf(f[p]) = m[i]
  <2>1. CodeOf(f[q]) = m[j]
    BY <1>7
  <2>2. f[q] \in Words
    BY <1>5, <1>7 DEF Rest
  <2>3. CodeOf(<<w>> \o f[q]) = Kept(w) \o CodeOf(f[q])
    BY <2>2, CodeCons
  <2> QED
    BY <1>7, <2>1, <2>3
<1>8. n + 1 \in S
  <2>1. ASSUME NEW p, Rest(e, p, x[n + 1]) PROVE CodeOf(f[p]) = m[n + 1]
    <3>1. p \in Nat /\ Len(e) = Len(<<>>) + p - 1
      BY <1>2, <1>6, <2>1 DEF Rest
    <3>2. p = Len(e) + 1
      BY <1>6, <3>1, EmptySeq
    <3> QED
      BY <1>4, <1>5, <3>2, CodeOfNone
  <2> QED
    BY <1>1, <2>1
<1>9. ASSUME NEW i \in 1..n, \A j \in (i + 1)..(n + 1) : j \in S PROVE i \in S
  <2>1. ASSUME NEW p, Rest(e, p, x[i]), Refers(s, i) PROVE CodeOf(f[p]) = m[i]
    <3> DEFINE h == SubSeq(s, i, i + 2)
    <3>1. /\ i + 2 <= n /\ s[i] = "lb" /\ IsIdent(s[i + 1]) /\ s[i + 2] = "rb"
          /\ i + 3 \in (i + 1)..(n + 1) /\ i + 3 \in 1..(n + 1) /\ i \in Nat
      BY <1>1, <2>1 DEF Refers, n
    <3>2. h \in Seq(Word) /\ Len(h) = 3 /\ h[1] = s[i] /\ h[2] = s[i + 1] /\ h[3] = s[i + 2]
      <4>1. \A j \in i..(i + 2) : s[j] \in Word
        BY <1>1, <3>1 DEF Word
      <4>2. /\ h \in Seq(Word)
            /\ Len(h) = IF i <= i + 2 THEN (i + 2) - i + 1 ELSE 0
            /\ \A j \in 1..((i + 2) - i + 1) : h[j] = s[i + j - 1]
        BY <3>1, <4>1, SubSeqProperties
      <4> HIDE DEF h
      <4>3. (i + 2) - i + 1 = 3 /\ i <= i + 2
        BY <3>1
      <4> QED
        BY <3>1, <4>2, <4>3
    <3> HIDE DEF h
    <3>3. x[i] = h \o x[i + 3] /\ x[i + 3] \in Words /\ h \in Words
      BY <1>2, <2>1, <3>1, <3>2 DEF h, Words
    <3>4. /\ p \in Nat \ {0} /\ p + Len(h) - 1 <= Len(e)
          /\ \A j \in 1..Len(h) : e[p + j - 1] = h[j]
          /\ Rest(e, p + Len(h), x[i + 3])
      BY <1>3, <2>1, <3>3, RestAfter
    <3>5. e[p] = h[1] /\ e[p + 1] = h[2] /\ e[p + 2] = h[3] /\ p + 2 <= Len(e)
      BY <1>6, <3>2, <3>4
    <3>6. Refers(e, p) /\ p \in 1..Len(e)
      BY <1>6, <3>1, <3>2, <3>4, <3>5 DEF Refers
    <3>7. f[p] = <<"tempview">> \o f[p + 3]
      BY <1>5, <3>6
    <3>8. m[i] = Kept("tempview") \o m[i + 3]
      BY <1>4, <2>1 DEF Kept, IsCode
    <3>9. i + 3 \in S
      <4> HIDE DEF S
      <4> QED
        BY <1>9, <3>1
    <3>10. Rest(e, p + 3, x[i + 3])
      BY <3>2, <3>4
    <3>11. "tempview" \in Word
      BY DEF Word
    <3> HIDE DEF S
    <3> QED
      BY <1>7, <3>7, <3>8, <3>9, <3>10, <3>11
  <2>2. ASSUME NEW p, Rest(e, p, x[i]), ~ Refers(s, i) PROVE CodeOf(f[p]) = m[i]
    <3> DEFINE t == s[i]
               h == Escaped(t)
    <3>1. t \in Token /\ i + 1 \in (i + 1)..(n + 1) /\ i + 1 \in 1..(n + 1)
      BY <1>1
    <3>2. x[i] = h \o x[i + 1] /\ x[i + 1] \in Words /\ m[i] = Kept(t) \o m[i + 1]
      BY <1>2, <1>4, <2>2, <3>1
    <3>3. i + 1 \in S
      <4> HIDE DEF S
      <4> QED
        BY <1>9, <3>1
    <3>4. t # "str2" /\ t \in Word
      BY <3>1 DEF Token, SqlTok, LineTok, OptTok, Word
    <3> HIDE DEF S, t, h
    <3>5. CASE t \in {"lb", "rb"}
      <4>1. h = <<t, t>>
        BY <3>5 DEF h, Escaped
      <4>2. h \in Seq(Word) /\ Len(h) = 2 /\ h[1] = t /\ h[2] = t
        BY <3>4, <4>1
      <4>3. /\ p \in Nat \ {0} /\ p + Len(h) - 1 <= Len(e)
            /\ \A j \in 1..Len(h) : e[p + j - 1] = h[j]
            /\ Rest(e, p + Len(h), x[i + 1])
        BY <1>3, <2>2, <3>2, <4>2, RestAfter DEF Words
      <4>4. e[p] = t /\ e[p + 1] = t /\ p < Len(e) /\ p \in 1..Len(e)
        BY <1>6, <4>2, <4>3
      <4>5. f[p] = <<t>> \o f[p + 2]
        BY <1>5, <3>5, <4>4
      <4>6. Rest(e, p + 2, x[i + 1])
        BY <4>2, <4>3
      <4> QED
        BY <1>7, <3>2, <3>3, <3>4, <4>5, <4>6
    <3>6. CASE t = "str"
      <4>1. h = <<"str2">>
        BY <3>6 DEF h, Escaped
      <4>2. h \in Seq(Word) /\ Len(h) = 1 /\ h[1] = "str2"
        BY <4>1 DEF Word
      <4>3. /\ p \in Nat \ {0} /\ p + Len(h) - 1 <= Len(e)
            /\ \A j \in 1..Len(h) : e[p + j - 1] = h[j]
            /\ Rest(e, p + Len(h), x[i + 1])
        BY <1>3, <2>2, <3>2, <4>2, RestAfter DEF Words
      <4>4. e[p] = "str2" /\ p \in 1..Len(e)
        BY <1>6, <4>2, <4>3
      <4>5. f[p] = <<t>> \o f[p + 1]
        BY <1>5, <3>6, <4>4
      <4>6. Rest(e, p + 1, x[i + 1])
        BY <4>2, <4>3
      <4> QED
        BY <1>7, <3>2, <3>3, <3>4, <4>5, <4>6
    <3>7. CASE t \notin {"lb", "rb", "str"}
      <4>1. h = <<t>>
        BY <3>7 DEF h, Escaped
      <4>2. h \in Seq(Word) /\ Len(h) = 1 /\ h[1] = t
        BY <3>4, <4>1
      <4>3. /\ p \in Nat \ {0} /\ p + Len(h) - 1 <= Len(e)
            /\ \A j \in 1..Len(h) : e[p + j - 1] = h[j]
            /\ Rest(e, p + Len(h), x[i + 1])
        BY <1>3, <2>2, <3>2, <4>2, RestAfter DEF Words
      <4>4. e[p] = t /\ p \in 1..Len(e)
        BY <1>6, <4>2, <4>3
      <4>5. f[p] = <<t>> \o f[p + 1]
        BY <1>5, <3>4, <3>7, <4>4
      <4>6. Rest(e, p + 1, x[i + 1])
        BY <4>2, <4>3
      <4> QED
        BY <1>7, <3>2, <3>3, <3>4, <4>5, <4>6
    <3> QED
      BY <3>5, <3>6, <3>7
  <2>3. i \in 1..(n + 1)
    BY <1>1
  <2>4. \A p : Rest(e, p, x[i]) => CodeOf(f[p]) = m[i]
    BY <2>1, <2>2
  <2> QED
    BY <2>3, <2>4
<1>10. \A i \in 1..(n + 1) : i \in S
  <2> HIDE DEF S
  <2> QED
    BY <1>1, <1>8, <1>9, Backwards
<1>11. Rest(e, 1, x[1])
  BY <1>2, <1>6 DEF Rest
<1>12. CodeOf(f[1]) = m[1]
  <2>1. 1 \in S
    <3> HIDE DEF S
    <3> QED
      BY <1>1, <1>10
  <2> QED
    BY <1>11, <2>1
<1> QED
  BY <1>4, <1>5, <1>12 DEF e

\* Where there is no code nothing is meant.
LEMMA MeantSkips ==
    ASSUME NEW s \in Text, NEW a \in Nat \ {0}, NEW b \in a..(Len(s) + 1),
           \A j \in a..(b - 1) : j \notin Code(s)
    PROVE  MeantFrom(s)[a] = MeantFrom(s)[b]
<1> DEFINE m == MeantFrom(s)
           n == b - 1
           S == {i \in 1..(n + 1) : i >= a => m[i] = m[b]}
<1>1. /\ Len(s) \in Nat /\ s \in Words /\ n \in Nat /\ n <= Len(s) /\ n + 1 = b
      /\ \A i \in 1..Len(s) : i \in Code(s) <=> IsCode(s[i])
  BY CodeIs, TextIsWords DEF IsCode
<1>2. /\ \A i \in 1..Len(s) : ~ Refers(s, i) => m[i] = Kept(s[i]) \o m[i + 1]
      /\ \A i \in 1..(Len(s) + 1) : m[i] \in Words
  BY <1>1, MeantFromIs
<1> HIDE DEF m, n
<1>3. n + 1 \in S
  BY <1>1
<1>4. ASSUME NEW i \in 1..n, \A j \in (i + 1)..(n + 1) : j \in S PROVE i \in S
  <2>1. /\ i \in 1..(n + 1) /\ i \in 1..Len(s)
        /\ i + 1 \in (i + 1)..(n + 1) /\ i + 1 \in 1..(Len(s) + 1)
    BY <1>1
  <2>2. ASSUME i >= a PROVE m[i] = m[b]
    <3>1. i \in a..(b - 1) /\ i + 1 >= a
      BY <1>1, <2>2
    <3>2. ~ IsCode(s[i])
      BY <1>1, <2>1, <3>1
    <3>3. ~ Refers(s, i)
      BY <3>2 DEF Refers, IsCode
    <3>4. m[i] = <<>> \o m[i + 1]
      BY <1>2, <2>1, <3>2, <3>3 DEF Kept
    <3>5. m[i] = m[i + 1]
      BY <1>2, <2>1, <3>4, Concats
    <3>6. i + 1 \in S
      <4> HIDE DEF S
      <4> QED
        BY <1>4, <2>1
    <3> QED
      BY <3>1, <3>5, <3>6
  <2> QED
    BY <2>1, <2>2
<1>5. \A i \in 1..(n + 1) : i \in S
  <2> HIDE DEF S
  <2> QED
    BY <1>1, <1>3, <1>4, Backwards
<1>6. a \in S
  <2>1. a \in 1..(n + 1)
    BY <1>1
  <2> HIDE DEF S
  <2> QED
    BY <1>5, <2>1
<1> QED
  BY <1>6 DEF m

\* What is meant by a part of a text is meant in the text, if no reference crosses its end.
LEMMA MeantPart ==
    ASSUME NEW s \in Text, NEW t \in Text, NEW f \in Nat \ {0}, f + Len(t) - 1 <= Len(s),
           \A p \in 1..Len(t) : t[p] = s[f + p - 1],
           \A p \in 1..Len(t) : Refers(s, f + p - 1) => p + 2 <= Len(t)
    PROVE  MeantFrom(s)[f] = Meant(t) \o MeantFrom(s)[f + Len(t)]
<1> DEFINE m == MeantFrom(s)
           w == MeantFrom(t)
           n == Len(t)
           S == {i \in 1..(n + 1) : m[f + i - 1] = w[i] \o m[f + n]}
<1>1. n \in Nat /\ Len(s) \in Nat /\ s \in Words /\ t \in Words
  BY CodeIs, TextIsWords
<1>2. /\ \A i \in 1..Len(s) :
            /\ Refers(s, i) => m[i] = <<"tempview">> \o m[i + 3]
            /\ ~ Refers(s, i) => m[i] = Kept(s[i]) \o m[i + 1]
      /\ \A i \in 1..(Len(s) + 1) : m[i] \in Words
  BY <1>1, MeantFromIs
<1>3. /\ Meant(t) = w[1] /\ w[n + 1] = <<>>
      /\ \A i \in 1..n :
            /\ Refers(t, i) => w[i] = <<"tempview">> \o w[i + 3]
            /\ ~ Refers(t, i) => w[i] = Kept(t[i]) \o w[i + 1]
      /\ \A i \in 1..(n + 1) : w[i] \in Words
  BY <1>1, MeantFromIs
<1>4. \A i \in 1..n : t[i] \in Word
  BY <1>1, WordsAre
<1> HIDE DEF m, w
<1>5. m[f + n] \in Words
  <2>1. f + n \in 1..(Len(s) + 1)
    BY <1>1
  <2> QED
    BY <1>2, <2>1
<1>6. n + 1 \in S
  <2>1. f + (n + 1) - 1 = f + n /\ n + 1 \in 1..(n + 1)
    BY <1>1
  <2>2. w[n + 1] \o m[f + n] = m[f + n]
    BY <1>3, <1>5, Concats
  <2> QED
    BY <2>1, <2>2
<1>7. ASSUME NEW i \in 1..n PROVE Refers(s, f + i - 1) <=> Refers(t, i)
  <2> DEFINE k == f + i - 1
  <2>1. k \in Nat /\ k <= Len(s) /\ i \in Nat /\ t[i] = s[k]
    BY <1>1, <1>7
  <2>2. ASSUME i + 2 <= n
        PROVE  t[i + 1] = s[k + 1] /\ t[i + 2] = s[k + 2] /\ k + 2 <= Len(s)
    <3>1. i + 1 \in 1..n /\ i + 2 \in 1..n
      BY <1>1, <2>1, <2>2
    <3>2. f + (i + 1) - 1 = k + 1 /\ f + (i + 2) - 1 = k + 2
      BY <2>1
    <3>3. t[i + 1] = s[f + (i + 1) - 1] /\ t[i + 2] = s[f + (i + 2) - 1]
      BY <3>1
    <3> QED
      BY <1>1, <2>1, <2>2, <3>2, <3>3
  <2>3. Refers(s, k) => i + 2 <= n
    OBVIOUS
  <2> HIDE DEF k
  <2>4. Refers(s, k) <=> Refers(t, i)
    BY <2>1, <2>2, <2>3 DEF Refers
  <2> QED
    BY <2>4 DEF k
<1>8. ASSUME NEW i \in 1..n, \A j \in (i + 1)..(n + 1) : j \in S PROVE i \in S
  <2> DEFINE k == f + i - 1
  <2>1. /\ k \in 1..Len(s) /\ t[i] = s[k] /\ i \in 1..(n + 1) /\ i + 1 \in (i + 1)..(n + 1)
        /\ f + (i + 1) - 1 = k + 1 /\ f + (i + 3) - 1 = k + 3
        /\ i + 1 \in 1..(n + 1)
    BY <1>1
  <2>2. ASSUME NEW h \in Words, NEW j \in 1..(n + 1), j \in S,
               w[i] = h \o w[j], m[k] = h \o m[f + j - 1]
        PROVE  m[k] = w[i] \o m[f + n]
    <3>1. m[f + j - 1] = w[j] \o m[f + n]
      BY <2>2
    <3>2. w[j] \in Words
      BY <1>3, <2>2
    <3>3. (h \o w[j]) \o m[f + n] = h \o (w[j] \o m[f + n])
      BY <1>5, <2>2, <3>2, Concats
    <3> HIDE DEF S, k
    <3> QED
      BY <2>2, <3>1, <3>3
  <2>3. Refers(s, k) <=> Refers(t, i)
    BY <1>7
  <2> HIDE DEF k
  <2>4. CASE Refers(t, i)
    <3>1. i + 3 \in (i + 1)..(n + 1) /\ i + 3 \in 1..(n + 1)
      BY <1>1, <2>4 DEF Refers
    <3>2. i + 3 \in S
      <4> HIDE DEF S
      <4> QED
        BY <1>8, <3>1
    <3>3. w[i] = <<"tempview">> \o w[i + 3] /\ m[k] = <<"tempview">> \o m[k + 3]
      BY <1>2, <1>3, <2>1, <2>3, <2>4
    <3>4. <<"tempview">> \in Words
      BY Concats DEF Word
    <3>5. m[k] = <<"tempview">> \o m[f + (i + 3) - 1]
      BY <2>1, <3>3
    <3>6. m[k] = w[i] \o m[f + n]
      <4> HIDE DEF S
      <4> QED
        BY <2>2, <3>1, <3>2, <3>3, <3>4, <3>5
    <3> QED
      BY <2>1, <3>6 DEF k
  <2>5. CASE ~ Refers(t, i)
    <3>1. i + 1 \in S
      <4> HIDE DEF S
      <4> QED
        BY <1>8, <2>1
    <3>2. w[i] = Kept(t[i]) \o w[i + 1] /\ m[k] = Kept(t[i]) \o m[k + 1]
      BY <1>2, <1>3, <2>1, <2>3, <2>5
    <3>3. Kept(t[i]) \in Words
      BY <1>4, Concats DEF Kept
    <3>4. m[k] = Kept(t[i]) \o m[f + (i + 1) - 1]
      BY <2>1, <3>2
    <3>5. m[k] = w[i] \o m[f + n]
      <4> HIDE DEF S
      <4> QED
        BY <2>1, <2>2, <3>1, <3>2, <3>3, <3>4
    <3> QED
      BY <2>1, <3>5 DEF k
  <2> QED
    BY <2>4, <2>5
<1>9. \A i \in 1..(n + 1) : i \in S
  <2> HIDE DEF S
  <2> QED
    BY <1>1, <1>6, <1>8, Backwards
<1>10. m[f] = w[1] \o m[f + n]
  <2>1. 1 \in S
    <3> HIDE DEF S
    <3> QED
      BY <1>1, <1>9
  <2>2. f + 1 - 1 = f
    OBVIOUS
  <2> QED
    BY <2>1, <2>2
<1> QED
  BY <1>3, <1>10 DEF m

\* What Spark parses of a statement is what its text means.
LEMMA ParsedIsMeant ==
    ASSUME NEW st, st.toks \in Text
    PROVE  CodeOf(Parsed(Bind(st))) = Meant(st.toks)
<1> DEFINE t == st.toks
<1>1. CASE Fields(t) # {}
  <2>1. Parsed(Bind(st)) = Format(EscapeBraces(t))
    BY <1>1 DEF Parsed, Bind
  <2> QED
    BY <2>1, FormatUndoes
<1>2. CASE Fields(t) = {}
  <2>1. Parsed(Bind(st)) = t
    BY <1>2 DEF Parsed, Bind
  <2>2. \A i \in 1..Len(t) : BraceIdent(t, i) = 0
    BY <1>2 DEF Fields
  <2>3. \A i \in 1..Len(t) : MeantAt(t, i) = CodeAt(t, i)
    BY <2>2 DEF MeantAt
  <2>4. [i \in 1..Len(t) |-> MeantAt(t, i)] = [i \in 1..Len(t) |-> CodeAt(t, i)]
    BY <2>3
  <2>5. Meant(t) = CodeOf(t)
    BY <2>4 DEF Meant, CodeOf
  <2> QED
    BY <2>1, <2>5
<1> QED
  BY <1>1, <1>2

\* A piece ends with the text or with a ";".
LEMMA EndsAt ==
    ASSUME NEW s \in Text, NEW e \in Ends(s)
    PROVE  e = Len(s) \/ s[e] = "semi"
<1>1. Ends(s) \subseteq {Len(s)} \cup {i \in 1..Len(s) : s[i] = "semi"}
  BY DEF Ends
<1> QED
  BY <1>1

\* A piece begins after all ends before its own.
LEMMA PieceAfter ==
    ASSUME NEW s \in Text, NEW e \in Ends(s), NEW d \in Ends(s), d < e, NEW i \in Piece(s, e)
    PROVE  d < i
<1> DEFINE B == {0} \cup {j \in Ends(s) : j < e}
<1>1. Len(s) \in Nat /\ Ends(s) \subseteq 0..Len(s)
  BY CodeIs, EndsAre
<1>2. B \subseteq Nat /\ B # {} /\ (\A j \in B : j <= Len(s)) /\ d \in B
  BY <1>1
<1>3. Piece(s, e) = (Max(B) + 1)..e
  BY DEF Piece
<1> HIDE DEF B
<1>4. Max(B) \in B /\ Max(B) >= d
  BY <1>1, <1>2, LargestOfNats
<1>5. Max(B) \in Nat /\ d \in Nat
  BY <1>2, <1>4
<1> QED
  BY <1>3, <1>4, <1>5

\* All code is in a piece.
LEMMA CodeInPiece ==
    ASSUME NEW s \in Text, NEW i \in Code(s)
    PROVE  \E e \in CodeEnds(s) : i \in Piece(s, e)
<1> DEFINE L == {d \in Ends(s) : d >= i}
           e == Min(L)
<1>1. /\ Len(s) \in Nat /\ Ends(s) \subseteq 0..Len(s) /\ Len(s) \in Ends(s) /\ i \in 1..Len(s)
  BY CodeIs, EndsAre
<1>2. L \subseteq Nat /\ L # {}
  BY <1>1
<1>3. e \in L /\ \A d \in L : e <= d
  <2> HIDE DEF L
  <2> QED
    BY <1>2, SmallestOfNats
<1> HIDE DEF e
<1>4. e \in Ends(s) /\ e >= i /\ e \in Nat
  BY <1>1, <1>3
<1>5. PICK a \in Nat \ {0} : /\ Piece(s, e) = a..e
                             /\ a - 1 \in {0} \cup {d \in Ends(s) : d < e}
  BY <1>4, PieceIs
<1>6. a <= i
  <2>1. CASE a - 1 = 0
    BY <1>1, <2>1
  <2>2. CASE a - 1 \in {d \in Ends(s) : d < e}
    <3>1. a - 1 \notin L
      BY <1>3, <1>4, <2>2
    <3> QED
      BY <1>1, <2>2, <3>1
  <2> QED
    BY <1>5, <2>1, <2>2
<1>7. i \in Piece(s, e)
  BY <1>1, <1>4, <1>5, <1>6
<1> QED
  BY <1>4, <1>7 DEF CodeEnds

\* What is meant from a piece on: what Spark parses of its statement, and the rest.
LEMMA StatementMeans ==
    ASSUME NEW s \in Text, NEW a \in Nat \ {0}, NEW b \in 0..Len(s), b = Len(s) \/ s[b] = "semi",
           Code(s) \cap (a..b) # {}
    PROVE  MeantFrom(s)[a] =
               CodeOf(Parsed(Bind(MakeStatement(s, a, b)))) \o MeantFrom(s)[b + 1]
<1> DEFINE st == MakeStatement(s, a, b)
           m == MeantFrom(s)
           f == st.off
           t == st.toks
           z == f + Len(t)
<1>1. /\ f \in a..b /\ t \in Text /\ f + Len(t) - 1 <= b
      /\ \A p \in 1..Len(t) : t[p] = s[f + p - 1]
      /\ \A i \in Code(s) \cap (a..b) : f <= i /\ i <= f + Len(t) - 1
  BY StatementIs
<1>2. CodeOf(Parsed(Bind(st))) = Meant(t)
  <2>1. st.toks \in Text
    BY <1>1
  <2> HIDE DEF st
  <2> QED
    BY <2>1, ParsedIsMeant
<1> HIDE DEF st, f, t, m
<1>3. /\ Len(s) \in Nat /\ b \in Nat /\ b <= Len(s) /\ f \in Nat \ {0} /\ Len(t) \in Nat
      /\ a <= f /\ f <= b
      /\ \A i : i \in Code(s) <=> i \in 1..Len(s) /\ s[i] \notin {"ws", "cm", "semi"}
  <2>1. Len(t) \in Nat /\ Len(s) \in Nat
    BY <1>1, CodeIs
  <2>2. \A i : i \in Code(s) <=> i \in 1..Len(s) /\ s[i] \notin {"ws", "cm", "semi"}
    BY CodeIs
  <2> QED
    BY <1>1, <2>1, <2>2
<1>4. m[a] = m[f]
  <2>1. \A j \in a..(f - 1) : j \notin Code(s)
    BY <1>1, <1>3
  <2>2. f \in a..(Len(s) + 1)
    BY <1>3
  <2> QED
    BY <2>1, <2>2, MeantSkips DEF m
<1>5. m[z] = m[b + 1]
  <2>1. \A j \in z..((b + 1) - 1) : j \notin Code(s)
    <3> SUFFICES ASSUME NEW j \in z..((b + 1) - 1), j \in Code(s) PROVE FALSE
      OBVIOUS
    <3>1. j \in a..b /\ ~ (j <= f + Len(t) - 1)
      BY <1>3
    <3> QED
      BY <1>1, <3>1
  <2>2. z \in Nat \ {0} /\ b + 1 \in z..(Len(s) + 1)
    BY <1>1, <1>3
  <2> HIDE DEF z
  <2> QED
    BY <2>1, <2>2, MeantSkips DEF m
<1>6. ASSUME NEW p \in 1..Len(t), Refers(s, f + p - 1) PROVE p + 2 <= Len(t)
  <2> DEFINE k == f + p - 1
  <2>1. k \in Nat \ {0} /\ k <= b /\ a <= k /\ k + 2 <= Len(s)
    BY <1>1, <1>3, <1>6 DEF Refers
  <2>2. s[k] = "lb" /\ s[k + 1] # "semi" /\ s[k + 2] = "rb"
    BY <1>6 DEF Refers, IsIdent
  <2> HIDE DEF k
  <2>3. k + 2 <= b
    <3>1. CASE b = Len(s)
      BY <2>1, <3>1
    <3>2. CASE s[b] = "semi"
      <4>1. b # k /\ b # k + 1
        BY <2>2, <3>2
      <4> QED
        BY <1>3, <2>1, <4>1
    <3> QED
      BY <3>1, <3>2
  <2>4. k + 2 \in Code(s) \cap (a..b)
    BY <1>3, <2>1, <2>2, <2>3
  <2>5. k + 2 <= f + Len(t) - 1
    BY <1>1, <2>4
  <2> QED
    BY <1>3, <2>5 DEF k
<1>7. m[f] = Meant(t) \o m[z]
  <2>1. f + Len(t) - 1 <= Len(s)
    BY <1>1, <1>3
  <2> QED
    BY <1>1, <1>3, <1>6, <2>1, MeantPart DEF m
<1> QED
  BY <1>2, <1>4, <1>5, <1>7 DEF m, st

\* rest[k] is what is meant from the k-th of the statements st of s on.
Tails(s, st, rest) ==
    /\ rest \in [1..(Len(st) + 1) -> Words]
    /\ rest[1] = Meant(s) /\ rest[Len(st) + 1] = <<>>
    /\ \A k \in 1..Len(st) :
          /\ st[k].toks \in Text
          /\ rest[k] = CodeOf(Parsed(Bind(st[k]))) \o rest[k + 1]

\* What the text means is what its statements mean, one after the other.
LEMMA StatementsMean ==
    ASSUME NEW s \in Text, NEW st, st = SplitStatements(s)
    PROVE  \E rest : Tails(s, st, rest)
<1> DEFINE o == InOrder(CodeEnds(s))
           n == Cardinality(CodeEnds(s))
           m == MeantFrom(s)
           c(k) == IF k = 1 THEN 1 ELSE o[k - 1] + 1
           rest == [k \in 1..(n + 1) |-> m[c(k)]]
<1>1. /\ n \in Nat /\ Len(st) = n
      /\ \A k \in 1..n : o[k] \in CodeEnds(s)
      /\ \A x \in CodeEnds(s) : \E k \in 1..n : o[k] = x
      /\ \A j, k \in 1..n : j < k => o[j] < o[k]
  BY StatementsAre
<1>2. ASSUME NEW k \in 1..n
      PROVE  \E a \in Nat \ {0} :
                /\ Piece(s, o[k]) = a..o[k]
                /\ Code(s) \cap (a..o[k]) # {} /\ st[k] = MakeStatement(s, a, o[k])
                /\ st[k].toks \in Text
  BY StatementsAre
<1>3. /\ Len(s) \in Nat /\ Ends(s) \subseteq 0..Len(s) /\ s \in Words
      /\ \A i \in Code(s) : i \in 1..Len(s)
      /\ \A e \in CodeEnds(s) : e \in Ends(s)
  BY CodeIs, EndsAre, TextIsWords DEF CodeEnds
<1>4. /\ Meant(s) = m[1] /\ m[Len(s) + 1] = <<>>
      /\ \A i \in 1..(Len(s) + 1) : m[i] \in Words
  BY <1>3, MeantFromIs
<1> HIDE DEF o, n, m
<1>5. \A k \in 1..n : o[k] \in Ends(s) /\ o[k] \in 0..Len(s)
  BY <1>1, <1>3
<1>6. \A k \in 1..(n + 1) : c(k) \in 1..(Len(s) + 1)
  <2> SUFFICES ASSUME NEW k \in 1..(n + 1) PROVE c(k) \in 1..(Len(s) + 1)
    OBVIOUS
  <2>1. CASE k = 1
    BY <1>3, <2>1
  <2>2. CASE k # 1
    <3>1. k - 1 \in 1..n
      BY <1>1, <2>2
    <3> QED
      BY <1>3, <1>5, <2>2, <3>1
  <2> QED
    BY <2>1, <2>2
<1>7. \A k \in 1..n : c(k + 1) = o[k] + 1
  <2> SUFFICES ASSUME NEW k \in 1..n PROVE c(k + 1) = o[k] + 1
    OBVIOUS
  <2>1. k + 1 # 1 /\ (k + 1) - 1 = k
    BY <1>1
  <2> QED
    BY <2>1
<1>8. ASSUME NEW k \in 1..(n + 1), NEW i \in Code(s), i >= c(k)
      PROVE  \E j \in 1..n : j >= k /\ i \in Piece(s, o[j])
  <2>1. PICK e \in CodeEnds(s) : i \in Piece(s, e)
    BY CodeInPiece
  <2>2. PICK j \in 1..n : o[j] = e
    BY <1>1, <2>1
  <2>3. PICK a \in Nat \ {0} : Piece(s, o[j]) = a..o[j]
    BY <1>2
  <2>4. i <= o[j] /\ i \in Nat /\ o[j] \in Nat
    BY <1>3, <1>5, <2>1, <2>2, <2>3
  <2>5. j >= k
    <3> SUFFICES ASSUME j < k PROVE FALSE
      BY <1>1
    <3>1. k # 1 /\ k - 1 \in 1..n /\ j <= k - 1
      BY <1>1
    <3>2. c(k) = o[k - 1] + 1 /\ o[k - 1] \in Nat
      BY <1>5, <3>1
    <3>3. j = k - 1 \/ j < k - 1
      BY <1>1, <3>1
    <3>4. o[j] <= o[k - 1]
      BY <1>1, <2>4, <3>1, <3>2, <3>3
    <3> HIDE DEF c
    <3> QED
      BY <1>8, <2>4, <3>2, <3>4
  <2> QED
    BY <2>1, <2>2, <2>5
<1>9. ASSUME NEW k \in 1..n
      PROVE  /\ st[k].toks \in Text
             /\ m[c(k)] = CodeOf(Parsed(Bind(st[k]))) \o m[c(k + 1)]
  <2> PICK b : b = o[k]
    OBVIOUS
  <2>1. PICK a \in Nat \ {0} :
                /\ Piece(s, b) = a..b
                /\ Code(s) \cap (a..b) # {} /\ st[k] = MakeStatement(s, a, b)
                /\ st[k].toks \in Text
    BY <1>2
  <2>2. b \in 0..Len(s) /\ b \in Ends(s) /\ (b = Len(s) \/ s[b] = "semi")
    BY <1>5, EndsAt
  <2>3. m[a] = CodeOf(Parsed(Bind(st[k]))) \o m[b + 1]
    <3>1. MeantFrom(s)[a] = CodeOf(Parsed(Bind(MakeStatement(s, a, b)))) \o MeantFrom(s)[b + 1]
      BY <2>1, <2>2, StatementMeans
    <3> QED
      BY <2>1, <3>1 DEF m
  <2>4. a <= b /\ c(k) <= a
    <3>1. a <= b
      <4>1. PICK x : x \in a..b
        BY <2>1
      <4> QED
        BY <1>3, <2>1, <2>2, <4>1
    <3>2. CASE k = 1
      BY <2>1, <3>1, <3>2
    <3>3. CASE k # 1
      <4>1. k - 1 \in 1..n /\ k - 1 < k
        BY <1>1, <3>3
      <4>2. o[k - 1] < b /\ o[k - 1] \in Ends(s)
        BY <1>1, <1>5, <4>1
      <4>3. a \in Piece(s, b)
        BY <1>3, <2>1, <2>2, <3>1
      <4>4. o[k - 1] < a
        BY <2>2, <4>2, <4>3, PieceAfter
      <4>5. o[k - 1] \in Nat
        BY <1>5, <4>1
      <4> QED
        BY <2>1, <3>1, <3>3, <4>4, <4>5
    <3> QED
      BY <3>2, <3>3
  <2>5. ASSUME NEW i \in c(k)..(a - 1), i \in Code(s) PROVE FALSE
    <3>1. k \in 1..(n + 1) /\ c(k) \in Nat
      BY <1>1, <1>6
    <3>2. PICK j \in 1..n : j >= k /\ i \in Piece(s, o[j])
      <4>1. i >= c(k)
        <5> HIDE DEF c
        <5> QED
          BY <2>5, <3>1
      <4> HIDE DEF c
      <4> QED
        BY <1>8, <2>5, <3>1, <4>1
    <3>3. i \in Nat /\ i < a
      <4> HIDE DEF c
      <4> QED
        BY <2>1, <2>5, <3>1
    <3>4. CASE j = k
      <4>1. i \in a..b
        BY <2>1, <3>2, <3>4
      <4> QED
        BY <1>3, <2>1, <2>2, <3>3, <4>1
    <3>5. CASE j > k
      <4> PICK e : e = o[j]
        OBVIOUS
      <4>1. b < e /\ e \in Ends(s) /\ i \in Piece(s, e)
        BY <1>1, <1>5, <3>2, <3>5
      <4>2. b < i
        BY <2>2, <4>1, PieceAfter
      <4>3. b \in Nat
        BY <1>3, <2>2
      <4> QED
        BY <2>1, <2>4, <3>3, <4>2, <4>3
    <3> QED
      BY <1>1, <3>2, <3>4, <3>5
  <2>6. m[c(k)] = m[a]
    <3>1. c(k) \in Nat \ {0} /\ a \in c(k)..(Len(s) + 1)
      <4>1. k \in 1..(n + 1)
        BY <1>1
      <4>2. c(k) \in 1..(Len(s) + 1)
        BY <1>6, <4>1
      <4> HIDE DEF c
      <4> QED
        BY <1>3, <2>2, <2>4, <4>2
    <3> HIDE DEF c
    <3> QED
      BY <2>5, <3>1, MeantSkips DEF m
  <2>7. m[c(k + 1)] = m[b + 1]
    <3>1. c(k + 1) = o[k] + 1
      BY <1>7
    <3> HIDE DEF c
    <3> QED
      BY <3>1
  <2> HIDE DEF c
  <2> QED
    BY <2>1, <2>3, <2>6, <2>7
<1>10. m[c(n + 1)] = <<>>
  <2> DEFINE z == c(n + 1)
  <2>1. z \in 1..(Len(s) + 1)
    BY <1>1, <1>6
  <2>2. ASSUME NEW i \in z..((Len(s) + 1) - 1), i \in Code(s) PROVE FALSE
    <3>1. n + 1 \in 1..(n + 1) /\ i >= z
      BY <1>1, <2>1
    <3>2. \E j \in 1..n : j >= n + 1
      <4> HIDE DEF c
      <4> QED
        BY <1>8, <2>2, <3>1
    <3> QED
      BY <1>1, <3>2
  <2> HIDE DEF z
  <2>3. z \in Nat \ {0} /\ Len(s) + 1 \in z..(Len(s) + 1)
    BY <1>3, <2>1
  <2>4. m[z] = m[Len(s) + 1]
    BY <2>2, <2>3, MeantSkips DEF m
  <2> QED
    BY <1>4, <2>4 DEF z
<1>11. c(1) = 1
  OBVIOUS
<1> HIDE DEF c
<1>12. rest \in [1..(n + 1) -> Words] /\ \A k \in 1..(n + 1) : rest[k] = m[c(k)]
  BY <1>4, <1>6
<1> HIDE DEF rest
<1>13. rest[1] = Meant(s) /\ rest[n + 1] = <<>>
  BY <1>1, <1>4, <1>10, <1>11, <1>12
<1>14. \A k \in 1..n : /\ st[k].toks \in Text
                       /\ rest[k] = CodeOf(Parsed(Bind(st[k]))) \o rest[k + 1]
  <2> SUFFICES ASSUME NEW k \in 1..n
               PROVE  /\ st[k].toks \in Text
                      /\ rest[k] = CodeOf(Parsed(Bind(st[k]))) \o rest[k + 1]
    OBVIOUS
  <2>1. k \in 1..(n + 1) /\ k + 1 \in 1..(n + 1)
    BY <1>1
  <2> QED
    BY <1>9, <1>12, <2>1
<1> QED
  BY <1>1, <1>12, <1>13, <1>14 DEF Tails

\* A sequence begins what it is continued to.
LEMMA PrefixOf ==
    ASSUME NEW x \in Words, NEW y \in Words
    PROVE  IsPrefix(x, x \o y)
<1> DEFINE z == x \o y
           u == SubSeq(x, 1, Len(x))
           v == SubSeq(z, 1, Len(x))
<1>1. x \in Seq(Word) /\ y \in Seq(Word) /\ Len(x) \in Nat /\ Len(y) \in Nat
  BY WordsAre DEF Words
<1>2. /\ z \in Seq(Word) /\ Len(z) = Len(x) + Len(y)
      /\ \A i \in 1..(Len(x) + Len(y)) : z[i] = IF i <= Len(x) THEN x[i] ELSE y[i - Len(x)]
  BY <1>1, ConcatProperties
<1> HIDE DEF z
<1>3. Len(x) <= Len(z) /\ \A i \in 1..Len(x) : z[i] = x[i]
  BY <1>1, <1>2
<1>4. u = [i \in 1..Len(x) |-> x[i]]
  BY <1>1
<1>5. v = [i \in 1..Len(x) |-> z[i]]
  BY <1>1, <1>2, <1>3
<1>6. u = v
  BY <1>3, <1>4, <1>5
<1> QED
  BY <1>3, <1>6 DEF IsPrefix, z

\* What Spark parsed of each statement is what was bound for it.
InTurn == \A k \in 1..Len(ran) : ran[k] = Parsed(bound[k])

\* Statements run in their order, each as it was bound.
LEMMA InTurnKeeps == CellInv /\ InTurn /\ [CellNext]_cellVars => InTurn'
<1> SUFFICES ASSUME CellInv, InTurn, [CellNext]_cellVars PROVE InTurn'
  OBVIOUS
<1>1. CASE UNCHANGED <<ran, bound>>
  BY <1>1 DEF InTurn
<1>2. CASE Start
  <2>1. stage = "new" /\ ran' = ran
    BY <1>2 DEF Start
  <2>2. ran' = <<>>
    BY <2>1 DEF CellInv, BoundFirst, Begun
  <2> QED
    BY <2>2 DEF InTurn
<1>3. CASE RunStatement
  <2> DEFINE P == {Parsed(bound[i]) : i \in 1..Len(bound)}
             n == Len(ran)
             last == Parsed(bound[n + 1])
  <2>1. bound' = bound /\ ran' \in {ran, Append(ran, last)} /\ stage = "run"
    BY <1>3 DEF RunStatement
  <2>2. ran \in Seq(P) /\ n \in Nat /\ Len(bound) \in Nat /\ n < Len(bound)
    <3>1. ran \in Seq(P) /\ Len(bound) \in Nat /\ n < Len(bound)
      BY <2>1 DEF CellInv, CellTypeOK, Progress
    <3> HIDE DEF P
    <3> QED
      BY <3>1
  <2>3. last \in P
    <3> DEFINE m == n + 1
    <3>1. m \in 1..Len(bound)
      BY <2>2
    <3> HIDE DEF m
    <3>2. Parsed(bound[m]) \in P
      BY <3>1
    <3> QED
      BY <3>2 DEF m
  <2> HIDE DEF P, last
  <2>4. CASE ran' = ran
    BY <1>1, <2>1, <2>4
  <2>5. CASE ran' = Append(ran, last)
    <3>1. Len(ran') = n + 1 /\ ran'[n + 1] = last /\ \A k \in 1..n : ran'[k] = ran[k]
      BY <2>2, <2>3, <2>5, AppendProperties
    <3>2. \A k \in 1..n : ran'[k] = Parsed(bound'[k])
      BY <2>1, <3>1 DEF InTurn
    <3>3. ran'[n + 1] = Parsed(bound'[n + 1])
      BY <2>1, <3>1 DEF last
    <3> HIDE DEF n
    <3>4. \A k \in 1..(n + 1) : ran'[k] = Parsed(bound'[k])
      BY <2>2, <3>2, <3>3
    <3> QED
      BY <3>1, <3>4 DEF InTurn
  <2> QED
    BY <2>1, <2>4, <2>5
<1>4. CASE LateFailure \/ Materialize \/ CreateView \/ Show \/ AssignVariable
  BY <1>1, <1>4 DEF LateFailure, Materialize, CreateView, Show, AssignVariable
<1>5. CASE UNCHANGED cellVars
  BY <1>1, <1>5 DEF cellVars
<1> QED
  BY <1>2, <1>3, <1>4, <1>5 DEF CellNext

\* What Spark parsed of the statements that ran is what they mean, one after the other.
LEMMA SeenIs ==
    ASSUME NEW s \in Text, NEW st, st = SplitStatements(s),
           Len(ran) \in Nat, Len(ran) <= Len(st),
           \A k \in 1..Len(ran) : ran[k] = Parsed(Bind(st[k]))
    PROVE  /\ Seen \in Words
           /\ \E y \in Words : /\ Seen \o y = Meant(s)
                               /\ Len(ran) = Len(st) => y = <<>>
<1> DEFINE n == Len(ran)
           put(k) == CodeOf(ran[k])
           read == [k \in 1..n |-> [put |-> put(k), next |-> k + 1]]
           g == Gather(n, read)
<1>0. PICK rest : Tails(s, st, rest)
  BY StatementsMean
<1>1. /\ rest \in [1..(Len(st) + 1) -> Words]
      /\ rest[1] = Meant(s) /\ rest[Len(st) + 1] = <<>>
      /\ \A k \in 1..Len(st) :
            /\ st[k].toks \in Text
            /\ rest[k] = CodeOf(Parsed(Bind(st[k]))) \o rest[k + 1]
  BY <1>0 DEF Tails
<1>2. n \in Nat /\ Len(st) \in Nat /\ n <= Len(st)
  <2>1. Len(SplitStatements(s)) \in Nat
    BY SplitIs
  <2> QED
    BY <2>1
<1>3. \A k \in 1..n : rest[k] = put(k) \o rest[k + 1]
  <2> SUFFICES ASSUME NEW k \in 1..n PROVE rest[k] = put(k) \o rest[k + 1]
    OBVIOUS
  <2>1. k \in 1..Len(st)
    BY <1>2
  <2>2. put(k) = CodeOf(Parsed(Bind(st[k])))
    OBVIOUS
  <2> HIDE DEF put
  <2> QED
    BY <1>1, <2>1, <2>2
<1>4. \A k \in 1..n : put(k) \in Words
  <2> SUFFICES ASSUME NEW k \in 1..n PROVE put(k) \in Words
    OBVIOUS
  <2>1. k \in 1..Len(st)
    BY <1>2
  <2>2. st[k].toks \in Text
    BY <1>1, <2>1
  <2>3. put(k) = Meant(st[k].toks)
    BY <2>2, ParsedIsMeant
  <2> DEFINE t == st[k].toks
  <2>4. t \in Words /\ Len(t) \in Nat
    BY <2>2, TextIsWords, CodeIs
  <2> HIDE DEF t
  <2>5. Meant(t) \in Words
    <3>1. 1 \in 1..(Len(t) + 1)
      BY <2>4
    <3> QED
      BY <2>4, <3>1, MeantFromIs
  <2> QED
    BY <2>3, <2>5 DEF t
<1>5. \A k \in 1..n : read[k].put = put(k) /\ read[k].next = k + 1
  OBVIOUS
<1>6. Seen = g[1]
  BY DEF Seen
<1> HIDE DEF put, read, n
<1>7. /\ g[n + 1] = <<>>
      /\ \A k \in 1..n : g[k] = put(k) \o g[k + 1]
      /\ \A k \in 1..(n + 1) : g[k] \in Words
  <2>1. \A k \in 1..n : read[k].put \in Seq(Word) /\ read[k].next \in (k + 1)..(n + 1)
    BY <1>2, <1>4, <1>5 DEF Words
  <2>2. /\ g[n + 1] = <<>>
        /\ \A k \in 1..n : g[k] = read[k].put \o g[read[k].next]
        /\ \A k \in 1..(n + 1) : g[k] \in Seq(Word)
    BY <1>2, <2>1, GatherIs
  <2> HIDE DEF g
  <2> QED
    BY <1>5, <2>2 DEF Words
<1> HIDE DEF g
<1> DEFINE y == rest[n + 1]
           S == {k \in 1..(n + 1) : g[k] \o y = rest[k]}
<1>8. y \in Words
  BY <1>1, <1>2
<1>9. n + 1 \in S
  <2> HIDE DEF y
  <2>1. g[n + 1] \o y = y
    BY <1>7, <1>8, Concats
  <2>2. n + 1 \in 1..(n + 1) /\ y = rest[n + 1]
    BY <1>2 DEF y
  <2> QED
    BY <2>1, <2>2
<1>10. ASSUME NEW k \in 1..n, \A j \in (k + 1)..(n + 1) : j \in S PROVE k \in S
  <2>1. k + 1 \in (k + 1)..(n + 1) /\ k \in 1..(n + 1) /\ k + 1 \in 1..(n + 1)
    BY <1>2
  <2>2. k + 1 \in S
    <3> HIDE DEF S
    <3> QED
      BY <1>10, <2>1
  <2>3. g[k + 1] \o y = rest[k + 1]
    BY <2>2
  <2> HIDE DEF y
  <2>4. (put(k) \o g[k + 1]) \o y = put(k) \o (g[k + 1] \o y)
    <3>1. put(k) \in Words /\ g[k + 1] \in Words
      BY <1>4, <1>7, <2>1
    <3> QED
      BY <1>8, <3>1, Concats
  <2>5. g[k] \o y = rest[k]
    BY <1>3, <1>7, <2>3, <2>4
  <2> QED
    BY <2>1, <2>5 DEF y
<1>11. g[1] \o y = rest[1]
  <2>1. 1 \in S
    <3> HIDE DEF S, y
    <3>1. \A k \in 1..(n + 1) : k \in S
      BY <1>2, <1>9, <1>10, Backwards
    <3> QED
      BY <1>2, <3>1
  <2> QED
    BY <2>1
<1>12. g[1] \in Words
  BY <1>2, <1>7
<1>13. Len(ran) = Len(st) => y = <<>>
  BY <1>1 DEF n
<1> HIDE DEF y
<1> QED
  BY <1>1, <1>6, <1>8, <1>11, <1>12, <1>13

\* The invariant makes what Spark parsed the beginning of what the user meant.
LEMMA RunsTheBeginning == CellInv /\ InTurn => SparkRunsTheCell
<1> SUFFICES ASSUME CellInv, InTurn PROVE SparkRunsTheCell
  OBVIOUS
<1> DEFINE st == SplitStatements(sql)
<1>1. /\ sql \in Text /\ Len(bound) \in Nat /\ Len(ran) <= Len(bound) /\ Len(ran) \in Nat
      /\ out = "ok" => Len(ran) = Len(bound) /\ Begun
  <2> DEFINE P == {Parsed(bound[k]) : k \in 1..Len(bound)}
  <2>1. /\ sql \in Text /\ Len(bound) \in Nat /\ Len(ran) <= Len(bound) /\ ran \in Seq(P)
        /\ out = "ok" => Len(ran) = Len(bound)
    BY DEF CellInv, CellTypeOK, Progress
  <2>2. Len(ran) \in Nat
    <3> HIDE DEF P
    <3> QED
      BY <2>1
  <2>3. out = "ok" => Begun
    BY DEF CellInv, Progress, Begun
  <2> QED
    BY <2>1, <2>2, <2>3
<1>2. Len(st) \in Nat
  BY <1>1, SplitIs
<1>3. \E y \in Words : /\ Seen \in Words /\ Seen \o y = Meant(sql)
                       /\ out = "ok" => y = <<>>
  <2>1. CASE Begun
    <3>1. bound = [k \in 1..Len(st) |-> Bind(st[k])]
      BY <2>1 DEF CellInv, BoundFirst
    <3> HIDE DEF st
    <3>2. Len(bound) = Len(st) /\ \A k \in 1..Len(st) : bound[k] = Bind(st[k])
      BY <1>2, <3>1
    <3>3. \A k \in 1..Len(ran) : ran[k] = Parsed(Bind(st[k]))
      BY <1>1, <3>2 DEF InTurn
    <3> QED
      BY <1>1, <3>2, <3>3, SeenIs DEF st
  <2>2. CASE ~ Begun
    <3>1. ran = <<>> /\ out # "ok"
      BY <1>1, <2>2 DEF CellInv, BoundFirst
    <3>2. Len(ran) = 0 /\ \A k \in 1..Len(ran) : ran[k] = Parsed(Bind(st[k]))
      BY <3>1
    <3> HIDE DEF st
    <3> QED
      BY <1>1, <1>2, <3>1, <3>2, SeenIs DEF st
  <2> QED
    BY <2>1, <2>2
<1>4. PICK y \in Words : /\ Seen \in Words /\ Seen \o y = Meant(sql)
                         /\ out = "ok" => y = <<>>
  BY <1>3
<1>5. IsPrefix(Seen, Meant(sql))
  <2>1. IsPrefix(Seen, Seen \o y)
    BY <1>4, PrefixOf
  <2> QED
    BY <1>4, <2>1
<1>6. out = "ok" => Seen = Meant(sql)
  BY <1>4, Concats
<1> QED
  BY <1>5, <1>6 DEF SparkRunsTheCell

\* What session.sql() is given makes Spark parse the cell as the user wrote it: all of it
\* when the cell succeeds, the beginning of it otherwise, for every text and whatever
\* braces are around the {name} references.
THEOREM RunsTheCell == CellSpec => []SparkRunsTheCell
<1>1. CellInit => InTurn
  BY DEF CellInit, InTurn
<1> QED
  BY <1>1, CellInitInv, CellNextKeeps, InTurnKeeps, RunsTheBeginning, PTL DEF CellSpec
=============================================================================
