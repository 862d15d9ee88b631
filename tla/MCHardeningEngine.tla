------------------------- MODULE MCHardeningEngine -------------------------
(* HardeningEngine with catalogues of a few rules.                         *)
EXTENDS HardeningEngine, TLC

(* Three sshd rules and a package; an argument on a line, a feature, an    *)
(* argument that must be absent from pam_unix, and the line.               *)
MixedRules == <<"sshd", "sshd", "sshd", "pkg", "pam_arg", "pam_module", "pam_arg", "pam_module">>
MixedLines == (5 :> 8) @@ (7 :> None)

SshdRules  == <<"sshd", "sshd", "sshd">>
NoLines    == <<>>
ArgRules   == <<"pam_arg", "pam_module">>
ArgLines   == 1 :> 2
Everything == {Rules}

(* One run asks for the first four rules, others for three of the PAM      *)
(* rules each; the host then has nothing of the other kind set.            *)
Sshd4   == 1 .. 4
Pam4    == 5 .. 8
OneKind == {Sshd4} \union {S \in SUBSET Pam4 : Cardinality(S) = 3}

Chosen(rules) == \E r \in rules : at[r] = "queued"
MCInit ==
    /\ Init
    /\ Chosen(Sshd4) => stock = {} /\ ~custom
    /\ Chosen(Pam4)  => dropin \union refused \union held = {}
MCSpec == MCInit /\ [][Next]_vars /\ Fairness
=============================================================================
