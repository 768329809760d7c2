--------------------------- MODULE MCEvaluationStudy ---------------------------
(***************************************************************************)
(* Inputs for the evaluation commands: small, and with every odd clip, tie  *)
(* and empty class the properties tell apart.                               *)
(***************************************************************************)
EXTENDS EvaluationStudy

\* A corpus has five clips a speaker, one more for the first one, and a spare
\* development speaker; one or two clips are not as they should be.
Good(n) == [take |-> n, quality |-> "good"]

Subset(p, first, speakers) ==
    [i \in 1..speakers |->
        [speaker_id |-> <<first, i>>,
         clips |-> [k \in 1..(IF i = 1 THEN 6 ELSE 5) |->
                        [id |-> k, audio |-> Good(<<p, i, k>>), timely |-> TRUE]]]]

Plain == [p \in Partitions |->
             Subset(p, p, IF p = "development" THEN 3 ELSE 2)]

Odd == {[timely |-> FALSE, audio |-> Good(<<"x", 0, 0>>)],
        [timely |-> TRUE, audio |-> [take |-> <<"x", 0, 0>>, quality |-> "poor"]],
        [timely |-> TRUE, audio |-> [take |-> <<"x", 0, 0>>, quality |-> "invalid"]],
        \* the same recording as another clip
        [timely |-> TRUE, audio |-> Good(<<"development", 1, 2>>)],
        [timely |-> TRUE, audio |-> Good(<<"evaluation", 2, 5>>)]}

Places == {<<"development", 1, 1>>, <<"development", 1, 5>>, <<"development", 2, 3>>,
           <<"evaluation", 1, 2>>, <<"evaluation", 2, 1>>}

With(s, at, odd) ==
    [s EXCEPT ![at[1]][at[2]].clips[at[3]] =
        [id |-> at[3], audio |-> odd.audio, timely |-> odd.timely]]

MCSources ==
    {Plain, [Plain EXCEPT !["evaluation"] = Subset("evaluation", "development", 2)]}
    \cup {With(Plain, a, o) : a \in Places, o \in Odd}
    \cup {With(With(Plain, a, o), b, o) : a, b \in Places, o \in Odd}

\* Scored manifests: one or two scores a class and partition, in order, over
\* two conditions in the evaluation partition.
Multisets(values) ==
    {<<v>> : v \in values} \cup {<<p[1], p[2]>> : p \in {q \in values \X values : q[1] <= q[2]}}

\* Scoring does nothing that depends on a score: one is enough there, and the
\* scored manifests a study is given have the scores the evaluation tells apart.
MCScores == {4}

Trials(p, label, scores) ==
    [i \in DOMAIN scores |->
        [trial_id |-> <<p, label, i>>, partition |-> p, label |-> label,
         enrollment_speaker_id |-> <<p, 1>>,
         probe_speaker_id |-> <<p, IF label = "genuine" THEN 1 ELSE 2>>,
         score |-> scores[i], condition |-> i]]

Pairs(values) == Multisets(values) \X Multisets(values)

MCScoredFiles ==
    {Trials("development", "genuine", d[1]) \o Trials("development", "impostor", d[2])
        \o Trials("evaluation", "genuine", e[1]) \o Trials("evaluation", "impostor", e[2]) :
     d \in Pairs({0, 2, 4}), e \in Pairs({0, 4})}

\* One or two trials a class and partition, the spoof trials of two attacks.
SpoofTrial(p, label, i, categories, probability, logit) ==
    [trial_id |-> <<p, label, i>>, partition |-> p, speaker_id |-> <<p, label>>, label |-> label,
     attack_id |-> IF label = "bonafide" THEN label ELSE <<"A07", "A13">>[i],
     attack_category |-> IF label = "bonafide" THEN label ELSE categories[i],
     spoof_probability |-> probability, bonafide_logit |-> logit]

\* The two attacks are of two categories, or of one.
Different == <<"synthetic", "voice_conversion">>
Alike == <<"synthetic", "synthetic">>

SpoofRows(p, label, categories, probabilities, logits) ==
    [i \in DOMAIN probabilities |->
        SpoofTrial(p, label, i, categories, probabilities[i], logits[i])]

\* The development trials, ranked as their probabilities are.
Developed(b, s) ==
    SpoofRows("development", "bonafide", Different, b, [i \in DOMAIN b |-> -b[i]])
        \o SpoofRows("development", "spoof", Different, s, [i \in DOMAIN s |-> -s[i]])

\* Every probability of the evaluation trials: their logits are all alike.
ByProbability ==
    {Developed(d[1], d[2])
        \o SpoofRows("evaluation", "bonafide", Different, e[1], <<2, 2>>)
        \o SpoofRows("evaluation", "spoof", Different, e[2], <<2, 2>>) :
     d \in Pairs({2, 4}), e \in Pairs({0, 2, 4})}

\* Every logit, in either order, whatever the probabilities say.
Logits == {<<v>> : v \in {-2, 0, 2}} \cup ({-2, 0, 2} \X {-2, 0, 2})

ByLogit ==
    {Developed(<<2>>, <<4>>)
        \o SpoofRows("evaluation", "bonafide", Alike, [i \in DOMAIN b |-> 2], b)
        \o SpoofRows("evaluation", "spoof", Alike, [i \in DOMAIN s |-> 2], s) :
     b \in Logits, s \in Logits}

\* One class is missing; one trial is there twice.
Refused ==
    {SpoofRows("development", "bonafide", Different, <<0>>, <<0>>),
     Developed(<<0>>, <<4>>)
        \o SpoofRows("evaluation", "bonafide", Different, <<0>>, <<0>>)
        \o SpoofRows("evaluation", "spoof", Different, <<4>>, <<0>>)
        \o SpoofRows("evaluation", "spoof", Different, <<4>>, <<0>>)}

MCSpoofManifests == ByProbability \cup ByLogit \cup Refused

MCVerifiers ==
    {[target |-> <<2, 4>>, nontarget |-> <<0, 2>>, spoof |-> <<0, 4>>],
     [target |-> <<4>>, nontarget |-> <<0>>, spoof |-> <<0>>]}
=============================================================================
