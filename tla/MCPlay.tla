-------------------------------- MODULE MCPlay --------------------------------
\* Play with small bounds.
EXTENDS Play

\* Two places an input: a wall is met in the middle of a step.
LeftRight == {-2, 0, 2}

\* The server's clock behind, level with and ahead of the client's.
AnySkew == {-1, 0, 1}
=============================================================================
