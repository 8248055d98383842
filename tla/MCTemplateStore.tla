--------------------------- MODULE MCTemplateStore ---------------------------
(* TemplateStore with two processes, two templates and one version.          *)
EXTENDS TemplateStore, TLC

Symmetry == Permutations(Process) \union Permutations(Template)
=============================================================================
