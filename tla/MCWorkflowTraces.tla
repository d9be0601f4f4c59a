--------------------------- MODULE MCWorkflowTraces ---------------------------
(***************************************************************************)
(* Instances of WorkflowTraces: payloads that go through every timestamp,  *)
(* every conclusion and every limit, and a few plain ones to meet them.    *)
(***************************************************************************)
EXTENDS WorkflowTraces

CONSTANTS build, lint, padded, main, trunk, other, blank, sha, SHA, short

\* A text that cleans to another's name, and one that cleans to nothing.
MCTexts == {build, lint, padded, main, trunk, other, blank}
MCCommits == {sha, SHA, short}
MCCommitSha == [t \in MCCommits |-> IF t = short THEN None ELSE sha]
MCAttempts == {<<1, 1>>, <<1, 2>>}
MCClean == [t \in MCTexts |-> CASE t = padded -> build [] t = blank -> None [] OTHER -> t]

\* main requires build; so does trunk, but there lint repeats and fills the places; of
\* other, two more names leave no room for it; and of the rest nothing is known.
MCProtection == [b \in MCTexts |->
    CASE b = main -> [checks |-> <<blank, padded>>, contexts |-> <<lint>>]
      [] b = trunk -> [checks |-> <<>>, contexts |-> <<blank, lint, lint, padded>>]
      [] b = other -> [checks |-> <<lint, main, padded>>, contexts |-> <<>>] [] OTHER -> None]

Before1970 == <<-1, 1>>
Epoch == <<0, 0>>
Times == {None, Before1970, <<0, 1>>, <<1, 1>>}
StepTimes == {None, Epoch, <<0, 1>>, <<1, 1>>}
Raw == Conclusions \cup {"unknown"} \cup {None}
Told == {"success", "failure", "timed_out", "cancelled"}

RawStep(number, name, conclusion, start, end) ==
    [number |-> number, name |-> name, conclusion |-> conclusion, start |-> start, end |-> end]
JobOf(attempt, job, name, conclusion, start, end, steps) ==
    [run |-> 1, attempt |-> attempt, job |-> job, workflow |-> padded, name |-> name,
     conclusion |-> conclusion, revision |-> SHA, start |-> start, end |-> end, steps |-> steps, pulls |-> <<0, 7, 8>>]

\* Pairs of timestamps of a job with pairs of timestamps of its step.
Timed == {JobOf(1, 1, build, "success", s, e, <<RawStep(1, build, "success", ss, se)>>) :
              s \in Times, e \in Times, ss \in StepTimes, se \in StepTimes}

\* Every conclusion of a named or unnamed job with those of up to two steps.
Half == <<0, 1>>
Failed ==
    {JobOf(1, 1, name, c, Epoch, Half, steps) : name \in {padded, blank}, c \in Raw,
         steps \in {<<>>} \cup {<<RawStep(1, build, c1, Epoch, Half)>> : c1 \in Told \cup {None}}} \cup
    {JobOf(1, 1, padded, c, Epoch, Half,
           <<RawStep(1, None, c1, Epoch, Epoch), RawStep(2, build, c2, Half, Half)>>) :
         c \in Told, c1 \in Told, c2 \in Told} \cup
    {JobOf(1, 1, lint, "failure", Epoch, Half, <<>>)}

\* Malformed identifiers, a step without a number, one step too many.
Refused == {[JobOf(1, 1, build, "failure", Epoch, Half, <<>>) EXCEPT !.run = 0],
            JobOf(0, 1, build, "failure", Epoch, Half, <<>>), JobOf(1, 0, build, "failure", Epoch, Half, <<>>),
            JobOf(1, 1, build, "failure", Epoch, Half, <<RawStep(0, build, "failure", Epoch, Half)>>),
            JobOf(1, 1, build, "failure", Epoch, Half,
                  [i \in 1 .. 3 |-> RawStep(i, build, "failure", Epoch, Half)])}

\* Jobs to share a run, or to be delivered again, with the others.
Plain == {JobOf(1, 1, None, "timed_out", Half, Half, <<>>),
          JobOf(1, 2, lint, "cancelled", Epoch, <<1, 0>>, <<>>),
          JobOf(1, 3, build, "failure", Half, <<1, 0>>, <<>>), JobOf(2, 1, build, "timed_out", <<1, 0>>, None, <<>>)}

RunOf(attempt, head, heads, bases) ==
    [run |-> 1, attempt |-> attempt, workflow |-> IF head = None THEN blank ELSE build,
     revision |-> IF head = None THEN short ELSE sha, event |-> "push", head |-> head, heads |-> heads, bases |-> bases,
     pulls |-> <<7, 8, 9>>]
MCUnaddressable == {<<1, 2>>}
MCRuns == {[RunOf(1, main, {}, {main}) EXCEPT !.run = -1], RunOf(0, main, {}, {main}),
           RunOf(1, main, {}, {main, blank}), RunOf(1, main, {}, {trunk}),
           RunOf(1, blank, {other}, {other}), RunOf(1, None, {main, other}, {main, other}),
           RunOf(2, None, {}, {padded})}
MCJobs == Timed \cup Failed \cup Refused \cup Plain

\* The two ways to count a timestamp agree on both sides of 1970.
ASSUME \A s \in -3 .. 3, part \in 0 .. Second - 1 : SystemTime(<<s, part>>) = s * Second + part
===============================================================================
