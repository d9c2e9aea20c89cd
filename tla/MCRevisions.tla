------------------------------ MODULE MCRevisions ------------------------------
(* Instances of Revisions for TLC.                                         *)
EXTENDS Revisions, TLC
CONSTANTS header, footer, plain

Processes == Permutations(Workers)

OneThemed == <<header>>
Nothing == {}
Publication == {"publish"}
Changes == AllKinds \ {"publish"}
AllRevisions == 1 .. MaxRevisions
Building == {"publish", "link", "render"}
=============================================================================
