------------------------------- MODULE Hostnames -------------------------------
(***************************************************************************)
(* The public hostname of an application.  A name is the lower-case name   *)
(* of a repository, as a sequence of characters; "_" stands for every      *)
(* character that a hostname label cannot have.  A hostname is its label.  *)
(***************************************************************************)
EXTENDS Integers, SequencesExt

CONSTANTS
    MaxLabel,   \* the length of a label: 63
    Site        \* the label of MiniDeploy's own public site

ASSUME LabelAssumption == MaxLabel \in Nat \ {0} /\ Site # <<>>

ValidChar(c) == c # "_"

\* The dashes at both ends go.
Trim(s) ==
    LET kept == {i \in 1..Len(s) : s[i] # "-"} IN
    IF kept = {} THEN <<>> ELSE SubSeq(s, Min(kept), Max(kept))

\* A valid character is kept; a run of others becomes one dash, unless one is
\* there or the label is still empty.
Extend(label, c) ==
    IF ValidChar(c) THEN Append(label, c)
    ELSE IF label = <<>> \/ Last(label) = "-" THEN label
    ELSE Append(label, "-")

\* Mutant: the cut may leave a dash at the end.
CutOnly(app) ==
    LET label == Trim(FoldLeft(Extend, <<>>, app)) IN
    SubSeq(label, 1, Min({Len(label), MaxLabel}))

publicHostnameLabel(app) ==
    LET label == Trim(FoldLeft(Extend, <<>>, app)) IN
    Trim(SubSeq(label, 1, Min({Len(label), MaxLabel})))

isReservedPublicApp(app) == publicHostnameLabel(app) = Site

\* The empty sequence: the application has no public hostname.
publicHostnameForApp(app) ==
    IF isReservedPublicApp(app) THEN <<>> ELSE publicHostnameLabel(app)
=============================================================================
