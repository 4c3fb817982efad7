--------------------------------- MODULE MCDak ---------------------------------
(***************************************************************************)
(* TLC instance of Dak: kernels started by an editor's host or from its    *)
(* terminal, reparented ones, servers, and ones with only a variable; flags *)
(* on ancestors that are read and beyond them; a window of several folders. *)
(***************************************************************************)
EXTENDS Dak

Anc(e, f) == [exe |-> e, flag |-> f]

Plain == [up |-> <<Anc("desktop", "none")>>, pid |-> Anc("gone", "none"), root |-> "none",
          ident |-> FALSE, dak |-> FALSE, terminal |-> FALSE, notebook |-> TRUE,
          window |-> "folder"]

\* The kernel, a wrapper, the editor's host and its main process with a flag; and
\* one whose VSCODE_PID is that process.
MCSetups ==
    {[Plain EXCEPT !.up = <<Anc("other", "none"), Anc("desktop", "none"),
                            Anc("desktop", f)>>] : f \in Flag}
    \cup {[Plain EXCEPT !.up = <<Anc("other", "none"), Anc("gone", "none")>>,
                        !.pid = Anc("desktop", f)] : f \in Flag}
    \cup {[Plain EXCEPT !.up = <<Anc("desktop", "none"), Anc("other", "none"),
                                 Anc("desktop", f)>>] : f \in {"disable", "profile"}}
    \cup {[Plain EXCEPT !.window = "other"],
          [Plain EXCEPT !.up = <<Anc("server", "none")>>],
          [Plain EXCEPT !.dak = TRUE],
          [Plain EXCEPT !.dak = TRUE, !.up = <<>>, !.notebook = FALSE],
          [Plain EXCEPT !.up = <<>>, !.root = "desktop", !.notebook = FALSE],
          [Plain EXCEPT !.terminal = TRUE, !.notebook = FALSE],
          [Plain EXCEPT !.up = <<>>]}
=============================================================================
