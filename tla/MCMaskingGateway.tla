-------------------------- MODULE MCMaskingGateway --------------------------
(***************************************************************************)
(* Instances of MaskingGateway for TLC.  Two values and one literal need   *)
(* three labels.                                                           *)
(***************************************************************************)
EXTENDS MaskingGateway, TLC

CONSTANTS v1, v2

Labels == 1..3

Says(values) == [values |-> values, literals |-> {}]

\* One value, two values in either order, one value twice, and a body that talks
\* about PERSON_1 as the user's own words.
AnyBody == {Says(<<v1>>), Says(<<v2>>), Says(<<v1, v2>>), Says(<<v2, v1>>),
            Says(<<>>), [values |-> <<v1>>, literals |-> {1}],
            [values |-> <<v2, v2>>, literals |-> {1}]}
\* The same bodies without the literals.
PlainBody == {Says(<<v1>>), Says(<<v2>>), Says(<<v1, v2>>), Says(<<>>)}

\* One conversation whose vault refuses records, spoils one and is full early,
\* under a clock that is set back; two conversations of which one minter is kept.
Alone(ss) == [sessions |-> {ss}, bodies |-> AnyBody, spoilt |-> {v2}, mintersKept |-> 1,
              attempts |-> 2, ceiling |-> 1, diskMayFail |-> TRUE, stepsBack |-> TRUE,
              maxTime |-> 2]
Crowded == [sessions |-> Session, bodies |-> PlainBody, spoilt |-> {}, mintersKept |-> 1,
            attempts |-> 2, ceiling |-> 2, diskMayFail |-> FALSE, stepsBack |-> FALSE,
            maxTime |-> 3]
EverySetup == {Crowded} \cup {Alone(s) : s \in Session}

Interchangeable == Permutations(Session) \cup Permutations(Request)
=============================================================================
