-------------------------- MODULE MCViewLifecycle ---------------------------
EXTENDS ViewLifecycle, TLC

CONSTANTS a, b, c

MCCaptured == <<a, b>>
Entry(column, retired) == [column |-> column, retired |-> retired]
\* One payload that maps both columns, one that lists them in the other order and
\* retires one, and one that leaves a column out and is refused.
MCPayloads == {<<Entry(a, FALSE), Entry(b, FALSE)>>, <<Entry(b, TRUE), Entry(a, FALSE)>>,
               <<Entry(a, FALSE)>>}

\* What the properties of the run need to be apart, and no more.
MCNeverApart == {}
MCApart == {{"deploy"}, {"save", "reconcile"}}

RequestSymmetry == Permutations(Requests)
=============================================================================
