-------------------------- MODULE MCLimitChecker ---------------------------
(***************************************************************************)
(* Small instances of the Limit Checker.  The counters of the results      *)
(* table are 32 bit and never wrap in service; here a counted failure or   *)
(* an aging request beyond the bound is not explored.                      *)
(***************************************************************************)
EXTENDS LimitCheckerHistory

CONSTANTS FailBound,       \* failures counted per actionpoint
          ChangeBound,     \* changes and passive failures counted per actionpoint
          AgeBound         \* aging requests since a comparison

Watch(mid, n) == [mid |-> mid, age |-> n]

Entry(default, rpn, maxFails, quota) ==
  [default |-> default, rpn |-> rpn, maxFails |-> maxFails,
   maxPassFail |-> quota, maxFailPass |-> quota, maxPassive |-> quota]

Unused == Entry("NOT_USED", <<>>, 0, 0)

ZeroBased(seq) == [i \in 0 .. Len(seq) - 1 |-> seq[i + 1]]

\* One actionpoint over two watchpoints that requests its RTS at the second
\* failure.  Both watchpoints are of one message and one is never stale; or
\* one is of another message and the other no longer watched.
OneAdt == {ZeroBased(<<Entry("ACTIVE", <<0, 1, RPN_AND, RPN_EQUAL>>, 2, 1)>>)}
TwoWdts == {ZeroBased(<<Watch("temp", 2), Watch("temp", 0)>>),
            ZeroBased(<<Watch("humid", 1), Watch(NoMid, 0)>>)}

\* Two actionpoints over one watchpoint, and a table with the second only.
TwoAdts == {ZeroBased(<<Entry("ACTIVE", <<0, RPN_EQUAL>>, 1, 0),
                        Entry("DISABLED", <<0, RPN_NOT, RPN_EQUAL>>, 1, 0)>>),
            ZeroBased(<<Unused, Entry("ACTIVE", <<0, RPN_EQUAL>>, 1, 0)>>)}
LastingWdt == {ZeroBased(<<Watch("temp", 0)>>)}

MCNext == /\ HNext
          /\ \A ap \in APs :
               /\ art'[ap].fails <= FailBound
               /\ art'[ap].passToFail + art'[ap].failToPass + art'[ap].passive
                    <= ChangeBound
          /\ \A w \in WPs : age'[w] <= AgeBound

MCSpec == HInit /\ [][MCNext]_hvars

=============================================================================
