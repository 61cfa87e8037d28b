------------------------------- MODULE MCOafs -------------------------------
(* The pages, and the numbers in them: one or the other in a behaviour.        *)
EXTENDS Oafs, OaqKeys
\* Keys that share prefixes of every length, with and without data.
MCLines == [key : {<<>>, <<97>>, <<97, 98>>, <<97, 98, 98>>, <<98, 97>>}, data : {<<>>, <<120>>}]

\* Both sides of every change of form.
MCWords == {0, 127, 128, 255, 28671, 28672, 65279, 65280, 65534, 65535}
MCLongs == {<<0, 0, 0, 0>>, <<0, 0, 0, 128>>, <<0, 0, 254, 255>>, <<0, 0, 255, 255>>, <<0, 1, 0, 0>>,
            <<0, 255, 255, 255>>, <<1, 0, 0, 0>>, <<128, 0, 0, 0>>, <<254, 255, 255, 255>>,
            <<255, 0, 0, 0>>, <<255, 254, 255, 255>>, <<255, 255, 0, 0>>, <<255, 255, 254, 255>>,
            <<255, 255, 255, 0>>, <<255, 255, 255, 255>>}

MCInit == Init /\ OaqInit
MCNext ==
  \/ got = <<>> /\ (\A k \in 1..2 : key[k].numbers = <<>>) /\ kind = "word" /\ Next /\ UNCHANGED oaqVars
  \/ pc = "read" /\ file = <<>> /\ OaqNext /\ UNCHANGED vars
MCSpec ==
  MCInit /\ [][MCNext]_<<vars, oaqVars>> /\ WF_<<vars, oaqVars>>(
    (Header \/ NoKey \/ PackEntry \/ EndPage) /\ UNCHANGED oaqVars)
=============================================================================
