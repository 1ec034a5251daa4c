----------------------------- MODULE Recognition -----------------------------
(***************************************************************************)
(* What the Marusia worker makes of a request: __analizeRequest of         *)
(* Worker/Modules/Worker/Worker.hpp, as operators of the request.          *)
(*                                                                         *)
(* The words a station heard (nlu.tokens) are searched for a lift word and *)
(* for the roots of numerals; a phrase without a lift word is looked up    *)
(* among the static phrases of the station's house.  Words are             *)
(* transliterated.  What string::find finds is given: RootsIn for a word,  *)
(* FoundIn for a command, in which a variant may be part of a word or span *)
(* several.                                                                *)
(***************************************************************************)
EXTENDS Integers, Sequences, SequencesExt

CONSTANTS
    Words,          \* the words a phrase is made of
    RootsIn,        \* [Words -> the members of __key_roots that the word contains]
    Commands,       \* the texts of the field command
    FoundIn,        \* [Commands -> the variants that the command contains]
    Houses, NoHouse,
    House,          \* the rows of table House, in order
    StaticPhrases,  \* the rows of table StaticPhrases, in order
    MaxWords        \* bound: words of a phrase

ASSUME RecognitionAssumption ==
    /\ NoHouse \notin Houses
    /\ MaxWords \in Nat \ {0} /\ StaticPhrases # <<>>
    /\ House \in Seq([house : Houses, top : Int, bot : Int, null : Int])
    /\ StaticPhrases \in Seq([house : Houses, keys : Seq(STRING), resp : STRING])

Phrases == UNION {[1..n -> Words] : n \in 1..MaxWords}

(* A request: the house of the station, or NoHouse, and what it heard.     *)
Said == [station : Houses \cup {NoHouse}, tokens : Phrases, command : Commands]

-----------------------------------------------------------------------------
(* The tables of the class.                                                *)

KeyRoots ==
    <<"perv", "vtor", "tret", "chet", "pyat", "shest", "sedm", "vosm", "devyat",
      "dcat", "sorok", "desyat", "devyan", "sot", "sto", "minus", "nulev">>

Numeral ==
    [nulevoj |-> 0, pervyj |-> 1, vtoroj |-> 2, tretij |-> 3, chetvertyj |-> 4,
     pyatyj |-> 5, shestoj |-> 6, sedmoj |-> 7, vosmoj |-> 8, devyatyj |-> 9,
     desyatyj |-> 10, odinnadcatyj |-> 11, dvenadcatyj |-> 12, trinadcatyj |-> 13,
     chetyrnadcatyj |-> 14, pyatnadcatyj |-> 15, shestnadcatyj |-> 16,
     semnadcatyj |-> 17, vosemnadcatyj |-> 18, devyatnadcatyj |-> 19,
     dvadcatyj |-> 20, tridcatyj |-> 30]

(* __num_roots; a key is the sequence of the words it is written with.     *)
NumRoots ==
    LET One   == {<<w>> : w \in DOMAIN Numeral}
        Minus == {<<"minus", w>> : w \in {v \in DOMAIN Numeral : Numeral[v] \in 1..3}}
        Tens  == {<<"dvadcat", w>> : w \in {v \in DOMAIN Numeral : Numeral[v] \in 1..9}}
    IN  [k \in One \cup Minus \cup Tens |->
            IF k \in One THEN Numeral[k[1]]
            ELSE IF k \in Minus THEN -Numeral[k[2]] ELSE 20 + Numeral[k[2]]]

(* Every ordinal has one of the roots: __key_roots is made for them.       *)
ASSUME OrdinalsAssumption ==
    \A w \in Words \cap DOMAIN Numeral :
        \E i \in DOMAIN KeyRoots : KeyRoots[i] \in RootsIn[w]

MqttKeys == {"etazh", "podjem", "spusk", "podnimi", "opusti"}

-----------------------------------------------------------------------------
FlagMqtt(p) == \E j \in DOMAIN p.tokens : p.tokens[j] \in MqttKeys

(* The passes of the two loops of the search: a root, and a word.          *)
Pass(p, k) ==
    LET n == Len(p.tokens)
    IN  [root |-> KeyRoots[((k - 1) \div n) + 1], word |-> p.tokens[((k - 1) % n) + 1]]

Passes(p) == Len(KeyRoots) * Len(p.tokens)

\* Mutant of BufNum: the first word with a root is kept.
BufNumFirst(p) ==
    LET b[k \in 0..Passes(p)] ==
            IF k = Passes(p) THEN <<>>
            ELSE IF Pass(p, k + 1).root \in RootsIn[Pass(p, k + 1).word]
            THEN <<Pass(p, k + 1).word>>
            ELSE b[k + 1]
    IN  b[0]

(* bufNum: for every root, and for every word, the word if it contains the *)
(* root.                                                                   *)
BufNum(p) ==
    LET b[k \in 0..Passes(p)] ==
            IF k = 0 THEN <<>>
            ELSE IF Pass(p, k).root \in RootsIn[Pass(p, k).word] THEN <<Pass(p, k).word>>
            ELSE b[k - 1]
    IN  b[Passes(p)]

(* The floor is announced when a row of the station's house admits it.     *)
Announced(p, n) ==
    \E i \in DOMAIN House :
        LET r == House[i]
            null == IF r.null = -1 THEN -1 ELSE 0
        IN  r.house = p.station /\ ((r.top >= n /\ r.bot <= n) \/ null = n)

(* says: for a lift command 1 if the floor is announced, 0 if the text is  *)
(* empty; for a static answer the row it comes from.                       *)
ToFloor(p, n) == [t |-> "lift", floor |-> n, says |-> IF Announced(p, n) THEN 1 ELSE 0]

(* at() throws for a word that is no key: nothing is sent.  Otherwise the  *)
(* command to move is sent, announced or not.                              *)
LiftAnswer(p) ==
    LET b == BufNum(p)
    IN  IF b \in DOMAIN NumRoots THEN ToFloor(p, NumRoots[b])
        ELSE [t |-> "throws", floor |-> 0, says |-> 0]

(* command.find(variant): the empty variant is found in every command.     *)
Found(p, v) == v = "" \/ v \in FoundIn[p.command]

Fits(p, i) ==
    /\ StaticPhrases[i].house = p.station
    /\ \E k \in DOMAIN StaticPhrases[i].keys : Found(p, StaticPhrases[i].keys[k])

(* The search over the rows stops at the first that fits; an empty         *)
(* response of that row is answered like none.                             *)
StaticAnswer(p) ==
    LET row[k \in 0..Len(StaticPhrases)] ==
            IF k = 0 THEN 0
            ELSE IF row[k - 1] = 0 /\ Fits(p, k) THEN k ELSE row[k - 1]
        found == row[Len(StaticPhrases)]
    IN  [t |-> IF found = 0 \/ StaticPhrases[found].resp = "" THEN "unknown" ELSE "static",
         floor |-> 0, says |-> found]

AnalizeRequest(p) == IF FlagMqtt(p) THEN LiftAnswer(p) ELSE StaticAnswer(p)

-----------------------------------------------------------------------------
(* Properties of the search, for all requests of up to MaxWords words.     *)

(* No floor is made up: a lift is sent only to a floor that one of the     *)
(* words names, and only when the phrase has a lift word.                  *)
FloorWasSaid ==
    \A p \in Said :
        LET a == AnalizeRequest(p)
        IN  a.t = "lift" =>
                /\ FlagMqtt(p)
                /\ \E j \in DOMAIN p.tokens :
                       p.tokens[j] \in DOMAIN Numeral /\ a.floor = Numeral[p.tokens[j]]

(* A phrase with a lift word, an ordinal and otherwise only words without  *)
(* a root sends the lift to that floor, whatever the order of the words:   *)
(* the roots overlap ("chet" and "dcat" are both in chetyrnadcatyj), and   *)
(* each word still gets the value of its own.                              *)
ClearIsRecognized ==
    \A p \in Said : \A j \in DOMAIN p.tokens :
        (/\ FlagMqtt(p) /\ p.tokens[j] \in DOMAIN Numeral
         /\ \A k \in DOMAIN p.tokens \ {j} : RootsIn[p.tokens[k]] = {})
        => LET a == AnalizeRequest(p) IN a.t = "lift" /\ a.floor = Numeral[p.tokens[j]]

(* The place of the last of the word's roots in __key_roots.               *)
Rank(w) ==
    LET at == {i \in DOMAIN KeyRoots : KeyRoots[i] \in RootsIn[w]}
    IN  IF at = {} THEN 0 ELSE CHOOSE i \in at : \A k \in at : k <= i

(* The two nested loops against what they compute: the word whose root     *)
(* comes last in __key_roots is taken, of several such words the last, and *)
(* the other words are as if they had not been said.  So "first or         *)
(* fourteenth" is fourteen and "fourteenth or first" too.                  *)
LastRootWins ==
    \A p \in Said : \A j \in DOMAIN p.tokens :
        LET w(k) == Rank(p.tokens[k])
            a    == AnalizeRequest(p)
        IN  (/\ FlagMqtt(p) /\ w(j) > 0
             /\ \A k \in DOMAIN p.tokens : w(k) < w(j) \/ (w(k) = w(j) /\ k <= j))
            => IF <<p.tokens[j]>> \in DOMAIN NumRoots
               THEN a.t = "lift" /\ a.floor = NumRoots[<<p.tokens[j]>>]
               ELSE a.t = "throws"

(* The floors of __num_roots that are written with two words.              *)
TwoWordFloors == {NumRoots[k] : k \in {m \in DOMAIN NumRoots : Len(m) = 2}}

(* The rows of __num_roots with two words serve nobody: no phrase sends a  *)
(* lift to a cellar or to the floors 21 to 29.  For most of them at()      *)
(* throws, for the root of "dvadcat" or "minus" is the last; not so for    *)
(* the 26th: "shestoj" contains "sto", a later root, and the lift goes to  *)
(* floor 6.                                                                *)
TwoWordsNeverMeant ==
    \A p \in Said :
        LET a == AnalizeRequest(p) IN a.t = "lift" => a.floor \notin TwoWordFloors
=============================================================================
