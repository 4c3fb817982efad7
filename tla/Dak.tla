---------------------------------- MODULE Dak ----------------------------------
(***************************************************************************)
(* managed_spark_connect/ide.py: which editor hosts the kernel, and        *)
(* whether the Data Agent Kit extension (DAK) is enabled in it, read from  *)
(* the editor's files one after the other while the editor may be writing  *)
(* them.                                                                   *)
(*                                                                         *)
(* The editor is external: an operation of the user in it is one write; an *)
(* update of the extension writes the list and .obsolete, taken as one     *)
(* step.  What the kernel inherited does not change:                       *)
(* its ancestors, its environment, and the notebook path the Jupyter       *)
(* extension gave it.  Any read may fail.  Finding product.json for an     *)
(* executable and parsing flags and URIs are abstracted to their results.  *)
(***************************************************************************)
EXTENDS Naturals, Sequences

CONSTANTS
    Setups,          \* kernels: what they inherited, see Setup
    MaxParentDepth,  \* _MAX_PARENT_DEPTH
    MaxFlagDepth,    \* _MAX_FLAG_DEPTH
    MaxWrites        \* bound: writes of the editor during one call

\* An ancestor: its executable belongs to no editor, to a desktop editor or to
\* a server install, or it cannot be looked up; and what it was started with.
Exe == {"other", "desktop", "server", "gone"}
Flag == {"none", "disable", "disable?", "profile", "profile?"}
Ancestor == [exe : Exe, flag : Flag]

\* up: the ancestors, nearest first.  pid: the process VSCODE_PID names.  root:
\* the editor named by an app-root variable.  ident: a variable that only names
\* the editor.  dak: DATA_CLOUD_CURR_IDE_NAME is set.  window: the notebook's
\* window has the innermost folder the editor knows around the notebook open, or
\* something else: several folders, or an outer one.
Setup == [up : Seq(Ancestor), pid : Ancestor, root : {"none", "desktop", "server"},
          ident : BOOLEAN, dak : BOOLEAN, terminal : BOOLEAN, notebook : BOOLEAN,
          window : {"folder", "other"}]

ASSUME DakAssumption ==
    /\ Setups \subseteq Setup
    /\ MaxParentDepth \in Nat \ {0} /\ MaxFlagDepth \in Nat /\ MaxWrites \in Nat

VARIABLES
    kernel,   \* the setup of this kernel
    disk,     \* the editor's files
    pc,       \* next step of the call
    info,     \* detect_ide()'s answer, cached
    entry,    \* the folder just read from an extensions.json, 0 if none
    listed,   \* "yes" | "no" | "unreadable": DAK in the default extensions.json
    profile,  \* the profile read from storage.json
    state,    \* dak_state()'s answer
    link,     \* the DAK session link is shown
    writes,   \* writes of the editor during the call
    blurred,  \* "update": one overlapped the call; "missed": .obsolete names DAK
              \* and could not be read; "elsewhere": what is read of a folder may
              \* not be that of the notebook's window
    seen,     \* states DAK really was in during the call
    hadList   \* DAK was in some extensions.json during the call

ide == <<info, entry, listed, profile, state, link>>
history == <<writes, blurred, seen, hadList>>
vars == <<kernel, disk, pc, ide, history>>

Profile == {"default", "custom"}

\* list: the folder of DAK (1 or 2, 0 if none) in a profile's extensions.json.
\* obsolete: .obsolete.  assoc: the profile of the notebook's folder in
\* storage.json.  shareExt, shareState: the custom profile's useDefaultFlags.
\* ws: the lists of the workspace's state.vscdb; off: of a profile's.
Disk == [list : [Profile -> 0..2], obsolete : SUBSET {1, 2}, assoc : Profile,
         shareExt : BOOLEAN, shareState : BOOLEAN, ws : {"none", "on", "off"},
         off : [Profile -> BOOLEAN]]

NoInfo == [family |-> FALSE, server |-> FALSE, how |-> "none", flags |-> {}]

Init ==
    /\ kernel \in Setups
    /\ disk \in [list : [Profile -> 0..1], obsolete : {{}}, assoc : Profile,
                 shareExt : BOOLEAN, shareState : BOOLEAN, ws : {"none", "on", "off"},
                 off : [Profile -> BOOLEAN]]
    /\ pc = "idle"
    /\ info = NoInfo /\ entry = 0 /\ listed = "unreadable" /\ profile = "default"
    /\ state = "unknown" /\ link = FALSE
    /\ writes = 0 /\ blurred = {} /\ seen = {} /\ hadList = FALSE

(***************************************************************************)
(* detect_ide                                                              *)
(***************************************************************************)

\* The ancestors _walk_parents yields: up to the depth, and to one that cannot
\* be looked up.  (It also ends at a process it has seen.)
Walk(up) ==
    LET gone == {i \in 1..Len(up) : up[i].exe = "gone"} \cup {MaxParentDepth + 1, Len(up) + 1}
    IN SubSeq(up, 1, (CHOOSE n \in gone : \A m \in gone : n <= m) - 1)

Info(server, how, flags) ==
    [family |-> TRUE, server |-> server, how |-> how, flags |-> flags]

\* The nearest ancestor of an editor; flags are its own and those of a few
\* ancestors above it.
FromProcessTree(k) ==
    LET walk == Walk(k.up)
        editors == {i \in 1..Len(walk) : walk[i].exe \in {"desktop", "server"}}
        first == CHOOSE i \in editors : \A j \in editors : i <= j
    IN IF editors # {}
       THEN Info(walk[first].exe = "server", "process",
                 {walk[i].flag : i \in {j \in 1..Len(walk) : first <= j
                                                              /\ j <= first + MaxFlagDepth}})
       ELSE IF k.pid.exe \in {"desktop", "server"}
       THEN Info(k.pid.exe = "server", "process", {k.pid.flag})
       ELSE NoInfo

Detect(k) ==
    IF FromProcessTree(k).family THEN FromProcessTree(k)
    ELSE IF k.root # "none" THEN Info(k.root = "server", "root", {})
    ELSE IF k.ident \/ k.dak THEN Info(FALSE, "ident", {})
    ELSE NoInfo

\* Only product.json, not a variable that names the editor, leads to its files.
HasDirs == info.how \in {"process", "root"}

(***************************************************************************)
(* What is true of the editor: DAK is installed in the profile in use, and *)
(* the user has it enabled in the notebook's window.  (The editor may keep *)
(* it from running all the same: workspace trust, virtual workspaces and   *)
(* policies are not looked at, here or in the code.)                       *)
(***************************************************************************)
ExtProfile(d, p) == IF d.shareExt THEN "default" ELSE p
StateProfile(d, p) == IF d.shareState THEN "default" ELSE p
InProfile(d, p) == d.list[p] # 0 /\ d.list[p] \notin d.obsolete

\* The flags of the editor's processes.
Started ==
    {kernel.up[i].flag : i \in {j \in 1..Len(kernel.up) : kernel.up[j].exe = "desktop"}}
    \cup (IF kernel.pid.exe = "desktop" THEN {kernel.pid.flag} ELSE {})

Chosen(d) == IF "profile" \in Started THEN "custom" ELSE d.assoc

Truth(d) ==
    LET p == Chosen(d)
        on == d.ws = "on" \/ (d.ws = "none" /\ ~d.off[StateProfile(d, p)])
    IN IF ~InProfile(d, ExtProfile(d, p)) THEN "not-installed"
       ELSE IF on /\ "disable" \notin Started THEN "enabled" ELSE "disabled"

InSomeList(d) == \E p \in Profile : InProfile(d, p)

(***************************************************************************)
(* dak_state and dak_links: one file a step                                *)
(***************************************************************************)
Quiet == UNCHANGED <<kernel, disk, history>>

\* Rich output for a session: the editor is looked for once per process, its
\* state every time.
DakLinks ==
    /\ pc = "idle"
    /\ LET found == IF info.family THEN info ELSE Detect(kernel)
       IN /\ info' = found
          /\ pc' = IF ~found.family THEN "done"
                   ELSE IF found.how = "ident" THEN "trust" ELSE "default"
    /\ seen' = {Truth(disk)} /\ hadList' = InSomeList(disk)
    /\ UNCHANGED <<kernel, disk, entry, listed, profile, state, link, writes, blurred>>

\* The end of dak_state, and what dak_links makes of it: the resource link works
\* only where the editor renders the output.
RenderedByEditor ==
    kernel.notebook \/ (info.how = "process" /\ ~kernel.terminal)

Answer(a) ==
    /\ state' = a
    /\ link' = (a = "enabled" /\ RenderedByEditor)
    /\ pc' = "done"

Unknown == Answer("unknown") /\ UNCHANGED <<info, entry, listed, profile>>

\* extensions.json of the default profile.
ReadDefaultList ==
    /\ pc = "default" /\ Quiet
    /\ \/ /\ entry' = disk.list["default"]
          /\ pc' = "obsolete0" /\ listed' = "no"
       \/ pc' = "trust" /\ listed' = "unreadable" /\ UNCHANGED entry
    /\ UNCHANGED <<info, profile, state, link>>

\* .obsolete; if it cannot be read nothing is obsolete.
ReadDefaultObsolete ==
    /\ pc = "obsolete0"
    /\ \E obs \in {disk.obsolete, {}} :
          /\ listed' = IF entry # 0 /\ entry \notin obs THEN "yes" ELSE "no"
          /\ blurred' = IF entry \in disk.obsolete \ obs THEN blurred \cup {"missed"}
                        ELSE blurred
    /\ pc' = "trust"
    /\ UNCHANGED <<kernel, disk, info, entry, profile, state, link, writes, seen, hadList>>

\* Mutant: the variable is believed whatever the editor's list says.
TrustAlways ==
    /\ pc = "trust" /\ Quiet
    /\ IF kernel.dak THEN Answer(IF listed # "unreadable" \/ info.how = "process"
                                 THEN "enabled" ELSE "unknown")
       ELSE IF info.server THEN Answer(IF listed = "no" THEN "not-installed" ELSE "unknown")
       ELSE IF ~HasDirs THEN Answer("unknown")
       ELSE pc' = "profile" /\ UNCHANGED <<state, link>>
    /\ UNCHANGED <<info, entry, listed, profile>>

\* DAK's own variable, which can leak from another editor's terminal, and
\* servers, whose enablement is not on this machine.
Trust ==
    /\ pc = "trust" /\ Quiet
    /\ IF kernel.dak
       THEN Answer(IF listed # "no" /\ (listed = "yes" \/ info.how = "process")
                   THEN "enabled" ELSE "unknown")
       ELSE IF info.server THEN Answer(IF listed = "no" THEN "not-installed" ELSE "unknown")
       ELSE IF ~HasDirs THEN Answer("unknown")
       ELSE pc' = "profile" /\ UNCHANGED <<state, link>>
    /\ UNCHANGED <<info, entry, listed, profile>>

\* _resolve_profile: --profile, or the profile of the innermost known folder
\* around the notebook.
ReadProfile ==
    /\ pc = "profile"
    /\ \/ Unknown /\ Quiet
       \/ /\ "profile?" \notin info.flags
          /\ \/ /\ "profile" \in info.flags \/ ~kernel.notebook \/ kernel.window = "folder"
                /\ profile' = IF "profile" \in info.flags THEN "custom"
                              ELSE IF kernel.notebook THEN disk.assoc ELSE "default"
                /\ UNCHANGED blurred
             \/ /\ "profile" \notin info.flags /\ kernel.notebook /\ kernel.window = "other"
                /\ profile' \in Profile
                /\ blurred' = blurred \cup {"elsewhere"}
          /\ pc' = "list"
          /\ UNCHANGED <<kernel, disk, info, entry, listed, state, link, writes, seen, hadList>>

\* extensions.json of the profile.
ReadList ==
    /\ pc = "list" /\ Quiet
    /\ \/ Unknown
       \/ /\ entry' = disk.list[ExtProfile(disk, profile)]
          /\ pc' = "obsolete"
          /\ UNCHANGED <<info, listed, profile, state, link>>

\* .obsolete, and the launch flags.
ReadObsolete ==
    /\ pc = "obsolete"
    /\ \E obs \in {disk.obsolete, {}} :
          /\ IF entry = 0 \/ entry \in obs THEN Answer("not-installed")
             ELSE IF "disable" \in info.flags THEN Answer("disabled")
             ELSE IF "disable?" \in info.flags THEN Answer("unknown")
             ELSE /\ pc' = IF kernel.notebook THEN "workspace" ELSE "global"
                  /\ UNCHANGED <<state, link>>
          /\ blurred' = IF entry \in disk.obsolete \ obs THEN blurred \cup {"missed"}
                        ELSE blurred
    /\ UNCHANGED <<kernel, disk, info, entry, listed, profile, writes, seen, hadList>>

\* _workspace_storage_db: the innermost known folder around the notebook.  A
\* workspace.json that cannot be read is skipped, and then another folder is found
\* or none.  (A folder without a database is one with empty lists.)
FindWorkspace ==
    /\ pc = "workspace"
    /\ \/ Unknown /\ Quiet
       \/ /\ \/ kernel.window = "folder" /\ pc' = "enabled" /\ UNCHANGED blurred
             \/ pc' \in {"enabled", "global"} /\ blurred' = blurred \cup {"elsewhere"}
          /\ UNCHANGED <<kernel, disk, ide, writes, seen, hadList>>

\* _read_id_list: whether DAK is in a list of a database, which is opened and
\* read anew every time.
ReadIdList(at, found, yes, otherwise) ==
    /\ pc = at /\ Quiet
    /\ \/ Unknown
       \/ /\ IF found THEN Answer(yes) ELSE otherwise
          /\ UNCHANGED <<info, entry, listed, profile>>

\* Whether DAK is in a list of the workspace that was found.
InWorkspace(list) == IF "elsewhere" \in blurred THEN BOOLEAN ELSE {disk.ws = list}

\* The two lists of that workspace.
ReadEnabled == \E found \in InWorkspace("on") :
    ReadIdList("enabled", found, "enabled",
               pc' = "disabled" /\ UNCHANGED <<state, link>>)

ReadDisabled == \E found \in InWorkspace("off") :
    ReadIdList("disabled", found, "disabled",
               pc' = "global" /\ UNCHANGED <<state, link>>)

\* Mutant: the global list of the default profile is read for every profile.
ReadGlobalDefault ==
    ReadIdList("global", disk.off["default"], "disabled", Answer("enabled"))

\* The profile's global list.
ReadGlobal ==
    ReadIdList("global", disk.off[StateProfile(disk, profile)], "disabled",
               Answer("enabled"))

\* The links are displayed; only what detect_ide() found is kept.
Displayed ==
    /\ pc = "done" /\ pc' = "idle"
    /\ entry' = 0 /\ listed' = "unreadable" /\ profile' = "default"
    /\ state' = "unknown" /\ link' = FALSE
    /\ writes' = 0 /\ blurred' = {} /\ seen' = {} /\ hadList' = FALSE
    /\ UNCHANGED <<kernel, disk, info>>

(***************************************************************************)
(* The editor                                                              *)
(***************************************************************************)
MayWrite == pc = "idle" \/ (pc # "done" /\ writes < MaxWrites)

Write(d) ==
    /\ MayWrite
    /\ disk' = d /\ d # disk
    /\ IF pc = "idle" THEN UNCHANGED history
       ELSE /\ writes' = writes + 1
            /\ seen' = seen \cup {Truth(d)}
            /\ hadList' = (hadList \/ InSomeList(d))
            /\ UNCHANGED blurred
    /\ UNCHANGED <<kernel, pc, ide>>

\* Enabling and disabling, globally or for the workspace, and another profile.
ChangeEnablement ==
    \/ \E v \in {"none", "on", "off"} : Write([disk EXCEPT !.ws = v])
    \/ \E p \in Profile : Write([disk EXCEPT !.off[p] = ~disk.off[p]])
    \/ \E p \in Profile : Write([disk EXCEPT !.assoc = p])

Install(p) == \E v \in {1, 2} \ disk.obsolete :
    disk.list[p] = 0 /\ Write([disk EXCEPT !.list[p] = v])

\* Uninstalling removes the entry, or leaves it and marks its folder obsolete.
Uninstall(p) ==
    /\ disk.list[p] # 0
    /\ \/ Write([disk EXCEPT !.list[p] = 0])
       \/ Write([disk EXCEPT !.obsolete = @ \cup {disk.list[p]}])

\* An update: the list names the new folder, and then the old one is obsolete.
\* Both writes count as one operation of the editor.
Update(p) ==
    /\ disk.list[p] # 0 /\ disk.obsolete = {}
    /\ MayWrite
    /\ disk' = [disk EXCEPT !.list = [q \in Profile |->
                    IF disk.list[q] = 0 THEN 0 ELSE 3 - disk.list[p]],
                            !.obsolete = {disk.list[p]}]
    /\ IF pc = "idle" THEN UNCHANGED history
       ELSE writes' = writes + 1 /\ blurred' = blurred \cup {"update"} /\ UNCHANGED <<seen, hadList>>
    /\ UNCHANGED <<kernel, pc, ide>>

\* The editor's next start removes obsolete folders.
Cleanup ==
    /\ pc = "idle" /\ disk.obsolete # {}
    /\ Write([disk EXCEPT !.obsolete = {}, !.list = [p \in Profile |->
                 IF disk.list[p] \in disk.obsolete THEN 0 ELSE disk.list[p]]])

Editor ==
    \/ ChangeEnablement \/ Cleanup
    \/ \E p \in Profile : Install(p) \/ Uninstall(p) \/ Update(p)

Call ==
    \/ DakLinks \/ ReadDefaultList \/ ReadDefaultObsolete \/ Trust \/ ReadProfile
    \/ ReadList \/ ReadObsolete \/ FindWorkspace \/ ReadEnabled \/ ReadDisabled \/ ReadGlobal
    \/ Displayed

Next == Call \/ Editor

Spec == Init /\ [][Next]_vars

-----------------------------------------------------------------------------

\* The editor process that was given a profile, or told to disable its extensions,
\* is one whose flags were read.
FlagsRead == \A f \in {"profile", "disable"} : f \in Started <=> f \in info.flags

\* A definite answer read from a desktop editor's files was true at some moment
\* of the call, though the files are read one by one while the editor performs
\* an operation.  The known gaps are left out: the notebook's folder has to be
\* known, and be that of its window, and what the editor was started with in reach;
\* an update of the extension may look like its removal, an unreadable .obsolete
\* like none, and an unreadable workspace.json like a folder the editor does not know.
AnswerWasTrue ==
    pc = "done" /\ info.family /\ kernel.notebook /\ ~kernel.dak /\ ~info.server
       /\ FlagsRead /\ writes <= 1 /\ state # "unknown"
       /\ blurred \cap {"missed", "elsewhere"} = {}
    => state \in seen \/ ("update" \in blurred /\ state = "not-installed")

\* DATA_CLOUD_CURR_IDE_NAME alone never makes a link: if the editor's list could
\* be read, DAK was in one of its lists during the call.
LinkNeedsDak ==
    pc = "done" /\ link /\ listed # "unreadable" /\ "missed" \notin blurred => hadList
=============================================================================
