------------------------------- MODULE MCJsPool -------------------------------
(* A small instance of the JavaScript pool: three files and two workers.    *)
(* The first two files are of every content; the last, which only the tail *)
(* of a run reaches, has work to do.                                        *)
EXTENDS JsPool

MCTrees == {s \in [Files -> Contents] : s[FileCount] \in {"unformatted", "deep"}}
=============================================================================
