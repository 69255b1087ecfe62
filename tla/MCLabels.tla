------------------------------ MODULE MCLabels ------------------------------
EXTENDS Labels

TwoAccounts == <<"ann", "bob">>
TwoIds == <<"Label_1", "Label_2">>
FirstLaunchOrAnn == {{}, {"ann"}}
BothHaveWork == [a \in {"ann", "bob"} |-> [l \in UserIds |-> IF l = "Label_1" THEN "Work" ELSE None]]
=============================================================================
