----------------------------- MODULE MCTudorDo -----------------------------
(* An instance of TudorDo; texts are made of a few characters: a, the wide *)
(* w, and those the code looks for.                                        *)
EXTENDS TudorDo

aaa == <<"a", "a", "a">>
aaab == Append(aaa, "b")

MCTyped ==
  {aaa, <<"w", "w">>, <<" ">>, <<"/">>, <<"~">>, <<"$">>}

(* / has a directory aaa nobody may open, a directory "aaa a" and the      *)
(* files aaab and $; "/aaa a" has a file aaab.                             *)
MCUnreadable == {<<"/">> \o aaa}

MCTree ==
  [d \in {<<"/">>, <<"/">> \o aaa \o <<" ", "a">>} |->
     IF d = <<"/">> THEN {aaa, aaa \o <<" ", "a">>, aaab, <<"$">>} ELSE {aaab}]

MCRegular == {<<"/">> \o aaab, <<"/", "$">>, <<"/">> \o aaa \o <<" ", "a", "/">> \o aaab}

MCHome == <<"/", "a", "a", "a", " ", "a">>
MCRunnable == {<<"/">> \o aaab}
MCXdgOpen == <<"x", " ">>
MCLaunchable == MCRunnable \cup {aaa \o <<" ", "/">>}
MCEnv == {aaab}
MCName == {aaab}
MCListings == {[d \in {"bin"} |-> MCName]}
=============================================================================
