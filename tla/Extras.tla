-------------------------------- MODULE Extras --------------------------------
(***************************************************************************)
(* managed_spark_connect/_ipython.py with the extensions it loads          *)
(* (managed_spark_magics/__init__.py, the end of sparksql.py): the extras  *)
(* that importing the package puts into an IPython shell, and their        *)
(* removal when enable_extras is switched off, among the user's own steps  *)
(* in the same shell.                                                      *)
(*                                                                         *)
(* A shell runs one cell at a time, so a step is never interrupted.        *)
(* IPython is external: its extension manager calls an extension's loader  *)
(* or unloader only when the set of loaded extensions says it is due, and  *)
(* registering a magic replaces the one of that name.  The shadow variables *)
(* own and ownName are the shell as it would be without the extras.        *)
(*                                                                         *)
(* The names of the specification carry the module's, so that one module   *)
(* of proofs can extend this one and another.                              *)
(***************************************************************************)
EXTENDS FiniteSets

VARIABLES
    magics,    \* [Magic -> Owner]  the shell's magics, by who registered them
    loaded,    \* extension_manager.loaded: "ms" (managed_spark_magics), "sql"
               \* (managed_spark_magics.sparksql)
    name,      \* user_ns["explore_dataframe"]
    viz,       \* google-colabsqlviz is installed
    valid,     \* the shell's configuration of SparkSql is valid
    imported,  \* the package was imported in this shell
    enable,    \* ManagedSparkConnect.enable_extras
    injected,  \* state.injected_explore_dataframe is set
    mine,      \* "ms" is in state.loaded_extensions
    added,     \* state.added_magics["ms"]
    own,       \* shadow of magics: what the user's own steps registered
    ownName    \* shadow of name

ours == <<injected, mine, added>>
shell == <<magics, loaded, name>>
shadow == <<own, ownName>>
extrasVars == <<ours, shell, shadow, viz, valid, imported, enable>>

Sql == {"lsql", "csql"}          \* %sparksql, %%sparksql
Magic == Sql \cup {"dpip"}
Ext == {"ms", "sql"}
Provides == [ms |-> Magic, sql |-> Sql]

\* "auto": registered by the extras' load_extension; "ms", "sql": by the user's
\* %load_ext of that extension; "other": by another package or the user.
Owner == {"none", "auto", "ms", "sql", "other"}
FromModule(o) == o \in {"auto", "ms", "sql"}

ExtrasInit ==
    /\ magics \in [Magic -> {"none", "other"}] /\ own = magics
    /\ loaded = {}
    /\ name \in {"absent", "user"} /\ ownName = name
    /\ viz \in BOOLEAN /\ valid \in BOOLEAN
    /\ imported = FALSE
    /\ enable \in BOOLEAN
    /\ injected = FALSE /\ mine = FALSE /\ added = {}

Present(mg) == {m \in Magic : mg[m] # "none"}

Registered(mg, ms, o) == [m \in Magic |-> IF m \in ms THEN o ELSE mg[m]]

\* What an extension's loader registers.  SparkSqlMagics reads its configuration
\* as it is made; if that is invalid, the loader raises there.
Registers(e) == IF valid THEN Provides[e] ELSE Provides[e] \ Sql

\* The two unloaders: %%sparksql stays while it is loaded in its own right.
SqlUnloaded(mg) == [m \in Magic |-> IF m \in Sql /\ FromModule(mg[m]) THEN "none" ELSE mg[m]]

MsUnloaded(mg, ld) ==
    LET rest == IF FromModule(mg["dpip"]) THEN [mg EXCEPT !["dpip"] = "none"] ELSE mg
    IN IF "sql" \in ld THEN rest ELSE SqlUnloaded(rest)

Unloaded(e, mg, ld) == IF e = "ms" THEN MsUnloaded(mg, ld) ELSE SqlUnloaded(mg)

(***************************************************************************)
(* _load_extras_for_shell, _unload_extras_for_shell                        *)
(***************************************************************************)

\* Mutant: whatever has the name is taken for an earlier injection.
InjectOver ==
    IF viz
    THEN name' = "ours" /\ injected' = TRUE
    ELSE UNCHANGED <<name, injected>>

\* The function is injected only into a free name.
Inject ==
    IF viz /\ name = "absent"
    THEN name' = "ours" /\ injected' = TRUE
    ELSE UNCHANGED <<name, injected>>

\* The extension is loaded, or every magic it would add is already there.  (That
\* it is just being imported does not happen: it imports nothing of the package.)
IsExtensionLoaded == "ms" \in loaded \/ Present(magics) = Magic

\* Mutant: the magics that were there are not put back.
LoadExtensionReplaces ==
    IF mine \/ IsExtensionLoaded
    THEN UNCHANGED <<magics, loaded, mine, added>>
    ELSE /\ magics' = Registered(magics, Magic, "auto")
         /\ loaded' = loaded \cup {"ms"}
         /\ mine' = TRUE
         /\ added' = Magic \ Present(magics)

\* The extension is loaded; the magics that were there are put back over the ones
\* it registered.  If its loader
\* raises, what it registered so far stays, and nothing is remembered.
LoadExtension ==
    IF mine \/ IsExtensionLoaded
    THEN UNCHANGED <<magics, loaded, mine, added>>
    ELSE LET existing == Present(magics)
             reg == Registered(magics, Registers("ms"), "auto")
         IN IF ~valid
            THEN magics' = reg /\ UNCHANGED <<loaded, mine, added>>
            ELSE /\ magics' = [m \in Magic |-> IF m \in existing THEN magics[m] ELSE reg[m]]
                 /\ loaded' = loaded \cup {"ms"}
                 /\ mine' = TRUE
                 /\ added' = Magic \ existing

Load == Inject /\ LoadExtension

\* Mutant: a name that was injected is deleted, though the user took it over.
WithdrawAny ==
    /\ name' = IF injected THEN "absent" ELSE name
    /\ injected' = FALSE

\* The name is deleted if it still is what was injected.
Withdraw ==
    /\ name' = IF injected /\ name = "ours" THEN "absent" ELSE name
    /\ injected' = FALSE

\* Mutant: all magics that are there are put back after the unloader.
UnloadExtensionPutsAllBack ==
    IF ~mine THEN UNCHANGED <<magics, loaded, mine, added>>
    ELSE /\ UNCHANGED magics
         /\ loaded' = loaded \ {"ms"}
         /\ mine' = FALSE /\ added' = {}

\* If the extras loaded the extension, it is unloaded; the magics they did not
\* add are put back, and those they added go if they are still the module's.
UnloadExtension ==
    IF ~mine THEN UNCHANGED <<magics, loaded, mine, added>>
    ELSE LET preserved == Present(magics) \ added
             left == IF "ms" \in loaded THEN MsUnloaded(magics, loaded) ELSE magics
         IN /\ magics' = [m \in Magic |->
                   IF m \in preserved THEN magics[m]
                   ELSE IF m \in added /\ FromModule(left[m]) THEN "none" ELSE left[m]]
            /\ loaded' = loaded \ {"ms"}
            /\ mine' = FALSE /\ added' = {}

Unload == Withdraw /\ UnloadExtension

\* The package is imported: extras are loaded if the trait says so.
Import ==
    /\ ~imported
    /\ imported' = TRUE
    /\ IF enable THEN Load ELSE UNCHANGED <<ours, shell>>
    /\ UNCHANGED <<enable, viz, valid, shadow>>

\* %config ManagedSparkConnect.enable_extras: traitlets tells of changes only.
Toggle ==
    /\ imported
    /\ enable' = ~enable
    /\ IF enable THEN Unload ELSE Load
    /\ UNCHANGED <<imported, viz, valid, shadow>>

(***************************************************************************)
(* The user and other packages.                                            *)
(***************************************************************************)

\* %load_ext
LoadExt(e) ==
    /\ e \notin loaded
    /\ magics' = Registered(magics, Registers(e), e)
    /\ own' = Registered(own, Registers(e), e)
    /\ loaded' = IF valid THEN loaded \cup {e} ELSE loaded
    /\ UNCHANGED <<ours, name, ownName, viz, valid, imported, enable>>

\* %unload_ext.  Without the extras an extension the user never loaded would
\* have nothing to unload.
UnloadExt(e) ==
    /\ e \in loaded
    /\ magics' = Unloaded(e, magics, loaded)
    /\ own' = Unloaded(e, own, loaded)
    /\ loaded' = loaded \ {e}
    /\ UNCHANGED <<ours, name, ownName, viz, valid, imported, enable>>

\* Another extension, or a user's own @register_magic.
Register(ms) ==
    /\ magics' = Registered(magics, ms, "other")
    /\ own' = Registered(own, ms, "other")
    /\ UNCHANGED <<ours, loaded, name, ownName, viz, valid, imported, enable>>

\* A cell assigns the name (also as the variable of a %%sparksql cell),
\* deletes it, or imports explore_dataframe from colabsqlviz itself.
Assign(v) ==
    /\ v = "ours" => viz
    /\ name' = v /\ ownName' = v
    /\ UNCHANGED <<ours, magics, loaded, own, viz, valid, imported, enable>>

\* %dpip install google-colabsqlviz
InstallViz ==
    /\ ~viz /\ viz' = TRUE
    /\ UNCHANGED <<ours, shell, shadow, valid, imported, enable>>

UserStep ==
    \/ \E e \in Ext : LoadExt(e) \/ UnloadExt(e)
    \/ \E ms \in {Sql, {"dpip"}} : Register(ms)
    \/ \E v \in {"absent", "ours", "user"} : Assign(v)
    \/ InstallViz

ExtrasNext == Import \/ Toggle \/ UserStep

ExtrasSpec == ExtrasInit /\ [][ExtrasNext]_extrasVars

-----------------------------------------------------------------------------

\* Every variable has its type.
ExtrasTypeOK ==
    /\ magics \in [Magic -> Owner] /\ own \in [Magic -> Owner \ {"auto"}]
    /\ loaded \subseteq Ext /\ added \subseteq Magic
    /\ name \in {"absent", "ours", "user"} /\ ownName \in {"absent", "ours", "user"}
    /\ viz \in BOOLEAN /\ valid \in BOOLEAN /\ imported \in BOOLEAN /\ enable \in BOOLEAN
    /\ injected \in BOOLEAN /\ mine \in BOOLEAN

\* What a load that raises half-way does not clean up: the magics of the first
\* class it registers.
HalfLoaded == IF valid THEN {} ELSE {"dpip"}

\* What the user or another package put into the shell under a name the extras
\* use too is there, whatever was loaded and unloaded in between: a magic of
\* another package and a value of explore_dataframe.
ForeignSurvives ==
    /\ \A m \in Magic \ HalfLoaded : own[m] = "other" => magics[m] = "other"
    /\ ownName = "user" => name = "user"

\* With the extras switched off the shell has nothing the user did not put there:
\* every magic and explore_dataframe is the user's own or gone.
DisabledLeavesNothing == ~enable =>
    /\ \A m \in Magic \ HalfLoaded : magics[m] \in {"none", own[m]}
    /\ name \in {"absent", ownName}

\* While %%sparksql is loaded as an extension in its own right its magics stay,
\* unless somebody else replaced them: otherwise IPython believes they are
\* loaded and a later %load_ext does nothing (managed_spark_magics/__init__.py).
SqlStays == [][Toggle /\ "sql" \in loaded =>
                 \A m \in Sql : magics[m] = "sql" => magics'[m] = "sql"]_extrasVars
=============================================================================
