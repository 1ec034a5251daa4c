-------------------------- MODULE MCMarusiaWorker --------------------------
(* A finite instance of MarusiaWorker and Recognition.                     *)
EXTENDS MarusiaWorker

(* All ordinals of the table, the first words of the two-word numerals, a  *)
(* lift word, a filler without a root and one with ("prosto").             *)
MCWords == DOMAIN Numeral \cup {"minus", "dvadcat", "etazh", "na", "prosto"}

MCRootsIn ==
    LET Of(w) ==
            CASE w = "pervyj" -> {"perv"}
              [] w = "vtoroj" -> {"vtor"}
              [] w = "tretij" -> {"tret"}
              [] w = "chetvertyj" -> {"chet"}
              [] w = "pyatyj" -> {"pyat"}
              [] w = "shestoj" -> {"shest", "sto"}
              [] w = "sedmoj" -> {"sedm"}
              [] w = "vosmoj" -> {"vosm"}
              [] w = "devyatyj" -> {"devyat"}
              [] w = "desyatyj" -> {"desyat"}
              [] w = "nulevoj" -> {"nulev"}
              [] w = "chetyrnadcatyj" -> {"chet", "dcat"}
              [] w = "pyatnadcatyj" -> {"pyat", "dcat"}
              [] w = "shestnadcatyj" -> {"shest", "dcat"}
              [] w = "devyatnadcatyj" -> {"devyat", "dcat"}
              [] w = "minus" -> {"minus"}
              [] w = "prosto" -> {"sto"}
              [] w \in {"etazh", "na"} -> {}
              [] OTHER -> {"dcat"}
    IN  [w \in MCWords |-> Of(w)]

(* The second house has a ground floor 0 and a cellar; its phrases come    *)
(* first, and one of them ends in a separator.                             *)
MCHouse == <<[house |-> "h1", top |-> 9, bot |-> 1, null |-> -1],
             [house |-> "h2", top |-> 30, bot |-> -1, null |-> 0]>>

MCStaticPhrases ==
    <<[house |-> "h2", keys |-> <<"kto", "gde">>, resp |-> "r1"],
      [house |-> "h1", keys |-> <<"kto zvonil", "vokzal">>, resp |-> "r2"],
      [house |-> "h2", keys |-> <<"vokzal", "">>, resp |-> "r3"]>>

(* "na vokzale" contains "vokzal".                                         *)
MCFoundIn == [c \in {"na vokzale"} |-> {"vokzal"}]

MCCommands == DOMAIN MCFoundIn

Request(h, w) == [station |-> h, tokens |-> w, command |-> "na vokzale"]

(* The first exchange may have been cut short after the first table.       *)
MCLoads == {{"MarussiaStation"}, Tables}

(* A request for a lift, one that throws, one of a stranger and one for a  *)
(* static phrase.                                                          *)
MCHeard == {Request("h1", <<"pervyj", "etazh">>), Request("h1", <<"etazh", "dvadcat">>),
            Request(NoHouse, <<"pervyj", "etazh">>), Request("h1", <<"na">>)}

(* The 26th floor of __num_roots is floor 6; a phrase is found in a word.  *)
ASSUME ExamplesAssumption ==
    /\ AnalizeRequest(Request("h2", <<"dvadcat", "shestoj", "etazh">>)).floor = 6
    /\ AnalizeRequest(Request("h1", <<"na">>)).says = 2

(* Once two messages were answered at once two strands go on for ever, and *)
(* only what overlapping sends do is followed.                             *)
Bounded ==
    together =>
        /\ Len(s.pend) + Len(s.ready) <= 2 /\ Len(s.toServer) <= 1 /\ Len(s.toWorker) <= 1
        /\ tables = Tables /\ splits = 0 /\ faults = 0
=============================================================================
