------------------------ MODULE MCConvertAdmission ------------------------
(* Model-checking instances of ConvertAdmission. *)
EXTENDS ConvertAdmission, TLC

CONSTANTS r1, r2, r3, ann, org1, org2, root

\* One identity that sends two requests at once, and an administrator.
TwoOfAnn == r1 :> ann @@ r2 :> ann @@ r3 :> root
AllFree == [u \in Identity |-> "free"]
OneEach == [u \in Identity |-> 1]

\* Two organisations, of which one sends two requests at once.
TwoOrgs == r1 :> org1 @@ r2 :> org1 @@ r3 :> org2
AllB2b == [u \in Identity |-> "b2b"]
OneForOrg1 == [u \in Identity |-> IF u = org1 THEN 1 ELSE 2]

TwoEach == [u \in Identity |-> 2]

SameSender == Permutations({r1, r2})
=============================================================================
