------------------------ MODULE ResponseCache_proofs ------------------------
(***************************************************************************)
(* As long as no two callers ask the model at once, an entry of the cache  *)
(* is whole and everyone gets the text the first one got; and however they *)
(* overlap, nothing is handed on that no model said.  For any number of    *)
(* callers and answers, across kills at every step.                        *)
(***************************************************************************)
EXTENDS ResponseCache, TLAPS

\* Past a miss there is one caller and no entry.
OneAsks ==
  /\ \A c, d \in Caller : at[c] \in Asking /\ at[d] \in Asking => c = d
  /\ \A c \in Caller : at[c] \in Asking => name["entry"] = NoFile

\* The file being written is the one with the temporary name, and the entry is
\* the text of everyone who has one.
InStep ==
  /\ \A c \in Caller :
       /\ at[c] = "write" =>
            open[c] = name["tmp"] /\ name["tmp"] \in File /\ content[open[c]] = Torn
       /\ at[c] = "rename" => name["tmp"] \in File /\ content[name["tmp"]] = answer[c]
       /\ at[c] = "parse" => name["entry"] # NoFile /\ answer[c] = content[name["entry"]]
  /\ name["entry"] # NoFile => content[name["entry"]] # Torn
  /\ \A a \in given : name["entry"] # NoFile /\ a = content[name["entry"]]

\* Whatever stands in a file or in a hand was said.
AllSaid ==
  /\ \A f \in File : content[f] \in said \union {Torn}
  /\ \A c \in Caller :
       /\ at[c] \in {"open", "write", "rename", "parse"} => answer[c] \in said
       /\ at[c] = "write" => open[c] \in File

IInv == TypeOK /\ AllSaid /\ NothingIsInvented /\ (~overlapped => OneAsks /\ InStep)

LEMMA NoFileIsNone == NoFile \notin File
  BY DEF NoFile, File

LEMMA InitIInv == Init => IInv
  BY DEF Init, IInv, TypeOK, AllSaid, NothingIsInvented, OneAsks, InStep, Purpose, Asking,
         Stage, NoFile

\* Steps that touch neither the files nor what was said, handed on or made of it.
LEMMA QuietSteps ==
  ASSUME IInv, NEW c \in Caller,
         \/ Ask(c) \/ HitRaises(c) \/ Miss(c) \/ MissOffline(c) \/ ReplaceRaises(c) \/ Stop(c)
  PROVE  IInv'
<1>1. /\ UNCHANGED <<purpose, name, content, said, given, verdicts>>
      /\ overlapped' \in BOOLEAN
      /\ overlapped => overlapped'
  BY DEF Ask, HitRaises, Miss, MissOffline, ReplaceRaises, Stop, IInv, TypeOK
<1>2. CASE Ask(c)
  BY <1>1, <1>2 DEF Ask, Goto, IInv, TypeOK, AllSaid, NothingIsInvented, OneAsks, InStep,
                    Stage, Asking
<1>3. CASE HitRaises(c) \/ MissOffline(c) \/ ReplaceRaises(c) \/ Stop(c)
  <2>1. Return(c) /\ UNCHANGED overlapped
    BY <1>3 DEF HitRaises, MissOffline, ReplaceRaises, Stop
  <2>. QED BY <1>1, <2>1 DEF Return, Goto, IInv, TypeOK, AllSaid, NothingIsInvented, OneAsks,
                             InStep, Stage, Asking
<1>4. CASE Miss(c)
  BY <1>1, <1>4 DEF Miss, Goto, IInv, TypeOK, AllSaid, NothingIsInvented, OneAsks, InStep,
                    Stage, Asking
<1>. QED BY <1>2, <1>3, <1>4

LEMMA HitStep ==
  ASSUME IInv, NEW c \in Caller, Hit(c)
  PROVE  IInv'
<1>1. /\ name["entry"] \in File /\ content[name["entry"]] \in said
      /\ answer' = [answer EXCEPT ![c] = content[name["entry"]]]
      /\ at' = [at EXCEPT ![c] = "parse"]
      /\ UNCHANGED <<purpose, name, content, open, said, given, verdicts, overlapped>>
  BY DEF Hit, Goto, IInv, TypeOK, AllSaid
<1>2. TypeOK'
  BY <1>1 DEF IInv, TypeOK, Stage
<1>3. AllSaid' /\ NothingIsInvented'
  BY <1>1 DEF IInv, TypeOK, AllSaid, NothingIsInvented
<1>4. ~overlapped' => OneAsks' /\ InStep'
  BY <1>1, NoFileIsNone DEF IInv, TypeOK, OneAsks, InStep, Asking
<1>. QED BY <1>2, <1>3, <1>4 DEF IInv

LEMMA ModelAnswersStep ==
  ASSUME IInv, NEW c \in Caller, ModelAnswers(c)
  PROVE  IInv'
<1>1. PICK a \in Answer : /\ answer' = [answer EXCEPT ![c] = a]
                          /\ said' = said \union {a}
  BY DEF ModelAnswers
<1>2. /\ at[c] = "call" /\ at' = [at EXCEPT ![c] = "open"]
      /\ UNCHANGED <<purpose, name, content, open, given, verdicts, overlapped>>
  BY DEF ModelAnswers, Goto, AfterAnswer
<1>3. TypeOK'
  BY <1>1, <1>2 DEF IInv, TypeOK, Stage, Asking
<1>4. AllSaid' /\ NothingIsInvented'
  BY <1>1, <1>2 DEF IInv, TypeOK, AllSaid, NothingIsInvented
<1>5. ~overlapped' => OneAsks' /\ InStep'
  BY <1>1, <1>2 DEF IInv, TypeOK, OneAsks, InStep, Asking
<1>. QED BY <1>3, <1>4, <1>5 DEF IInv

LEMMA UnreachableStep ==
  ASSUME IInv, NEW c \in Caller, Unreachable(c)
  PROVE  IInv'
<1>1. /\ Return(c) /\ purpose = "second reader"
      /\ verdicts' = verdicts \union {Verdict(FALSE, FALSE)}
      /\ UNCHANGED <<purpose, name, content, said, given, overlapped>>
  BY DEF Unreachable
<1>2. /\ Verdict(FALSE, FALSE) \in [checked : BOOLEAN, supported : BOOLEAN]
      /\ ~ Verdict(FALSE, FALSE).supported
  BY DEF Verdict
<1>3. TypeOK'
  BY <1>1, <1>2 DEF IInv, TypeOK, Return, Goto, Stage
<1>4. AllSaid' /\ NothingIsInvented'
  <2>1. AllSaid'
    BY <1>1 DEF IInv, TypeOK, AllSaid, Return, Goto
  <2>2. (\E v \in verdicts' : v.supported) => \E v \in verdicts : v.supported
    BY <1>1, <1>2
  <2>. QED BY <1>1, <2>1, <2>2 DEF IInv, NothingIsInvented
<1>5. ~overlapped' => OneAsks' /\ InStep'
  BY <1>1 DEF IInv, TypeOK, OneAsks, InStep, Asking, Return, Goto
<1>. QED BY <1>3, <1>4, <1>5 DEF IInv

\* The writer empties the temporary file; there is no entry to be hurt.
LEMMA OpenStep ==
  ASSUME IInv, NEW c \in Caller, Open(c)
  PROVE  IInv'
<1>1. PICK f \in File : /\ name' = [name EXCEPT !["tmp"] = f]
                        /\ content' = [content EXCEPT ![f] = Torn]
                        /\ open' = [open EXCEPT ![c] = f]
  BY DEF Open, Scratch, NewFile, Unused, IInv, TypeOK
<1>2. /\ at[c] = "open" /\ at' = [at EXCEPT ![c] = "write"]
      /\ UNCHANGED <<purpose, answer, said, given, verdicts, overlapped>>
  BY DEF Open, Goto
<1>3. TypeOK'
  BY <1>1, <1>2 DEF IInv, TypeOK, Stage, Asking
<1>4. AllSaid' /\ NothingIsInvented'
  BY <1>1, <1>2 DEF IInv, TypeOK, AllSaid, NothingIsInvented
<1>5. ASSUME ~overlapped
      PROVE  /\ name["entry"] = NoFile /\ given = {}
             /\ \A d \in Caller : d # c => at[d] \notin Asking \union {"parse"}
  BY <1>2, <1>5 DEF IInv, OneAsks, InStep, Asking
<1>6. ~overlapped' => OneAsks' /\ InStep'
  BY <1>1, <1>2, <1>5 DEF IInv, TypeOK, OneAsks, InStep, Asking
<1>. QED BY <1>3, <1>4, <1>6 DEF IInv

LEMMA WriteTextStep ==
  ASSUME IInv, NEW c \in Caller, WriteText(c)
  PROVE  IInv'
<1>1. PICK left \in {answer[c], Torn} :
        /\ content' = [content EXCEPT ![open[c]] = left]
        /\ content[open[c]] = Torn => left = answer[c]
  BY DEF WriteText
<1>2. /\ at[c] = "write" /\ at' = [at EXCEPT ![c] = "rename"]
      /\ open' = [open EXCEPT ![c] = NoFile]
      /\ UNCHANGED <<purpose, name, answer, said, given, verdicts, overlapped>>
  BY DEF WriteText, Goto
<1>3. open[c] \in File /\ answer[c] \in said /\ answer[c] \in Answer
  BY <1>2 DEF IInv, TypeOK, AllSaid
<1>4. TypeOK'
  BY <1>1, <1>2, <1>3 DEF IInv, TypeOK, Stage, Asking
<1>5. AllSaid' /\ NothingIsInvented'
  BY <1>1, <1>2, <1>3 DEF IInv, TypeOK, AllSaid, NothingIsInvented
<1>6. ASSUME ~overlapped
      PROVE  /\ name["entry"] = NoFile /\ given = {}
             /\ open[c] = name["tmp"] /\ content[open[c]] = Torn
             /\ \A d \in Caller : d # c => at[d] \notin Asking \union {"parse"}
  BY <1>2, <1>6 DEF IInv, OneAsks, InStep, Asking
<1>7. ~overlapped' => OneAsks' /\ InStep'
  BY <1>1, <1>2, <1>3, <1>6 DEF IInv, TypeOK, OneAsks, InStep, Asking
<1>. QED BY <1>4, <1>5, <1>7 DEF IInv

\* The file with the temporary name becomes the entry.
LEMMA ReplaceStep ==
  ASSUME IInv, NEW c \in Caller, Replace(c)
  PROVE  IInv'
<1>1. /\ at[c] = "rename" /\ name["tmp"] # NoFile
      /\ name' = [tmp |-> NoFile, entry |-> name["tmp"]]
      /\ at' = [at EXCEPT ![c] = "parse"]
      /\ UNCHANGED <<purpose, content, open, answer, said, given, verdicts, overlapped>>
  BY DEF Replace, Goto
<1>2. /\ name' \in [{"tmp", "entry"} -> File \union {NoFile}]
      /\ name'["entry"] = name["tmp"] /\ name["tmp"] \in File
  BY <1>1 DEF IInv, TypeOK
<1>3. TypeOK'
  BY <1>1, <1>2 DEF IInv, TypeOK, Stage
<1>4. AllSaid' /\ NothingIsInvented'
  BY <1>1 DEF IInv, TypeOK, AllSaid, NothingIsInvented
<1>5. ASSUME ~overlapped
      PROVE  /\ name["entry"] = NoFile /\ given = {}
             /\ answer[c] \in Answer /\ content[name["tmp"]] = answer[c]
             /\ \A d \in Caller : d # c => at[d] \notin Asking \union {"parse"}
  BY <1>1, <1>5 DEF IInv, TypeOK, AllSaid, OneAsks, InStep, Asking
<1>6. ~overlapped' => OneAsks' /\ InStep'
  BY <1>1, <1>2, <1>5, NoFileIsNone, AnswerAssumption DEF IInv, TypeOK, OneAsks, InStep, Asking
<1>. QED BY <1>3, <1>4, <1>6 DEF IInv

\* What each reader makes of an answer.
LEMMA VerdictsOfAnswer ==
  ASSUME NEW a \in Answer, purpose \in Purpose
  PROVE  /\ Verdicts(a) \subseteq [checked : BOOLEAN, supported : BOOLEAN]
         /\ \A v \in Verdicts(a) : v.supported => a \in Supporting
         /\ purpose = "entailment" => \A v \in Verdicts(a) : v.checked
<1>1. ASSUME NEW x \in BOOLEAN, NEW y \in BOOLEAN
      PROVE  /\ Verdict(x, y) \in [checked : BOOLEAN, supported : BOOLEAN]
             /\ Verdict(x, y).checked = x /\ Verdict(x, y).supported = y
  BY DEF Verdict
<1>2. CASE purpose = "analysis"
  BY <1>2 DEF Verdicts
<1>3. CASE purpose = "entailment"
  <2>1. Verdicts(a) = {Verdict(TRUE, a \in Supporting)}
    BY <1>3 DEF Verdicts, Entailment
  <2>2. (a \in Supporting) \in BOOLEAN
    OBVIOUS
  <2>3. /\ Verdict(TRUE, a \in Supporting) \in [checked : BOOLEAN, supported : BOOLEAN]
        /\ Verdict(TRUE, a \in Supporting).checked = TRUE
        /\ Verdict(TRUE, a \in Supporting).supported = (a \in Supporting)
    BY <1>1, <2>2
  <2>. QED BY <2>1, <2>3
<1>4. CASE purpose = "second reader"
  <2> DEFINE x == a \in Supporting \union Denying
             y == a \in Supporting
  <2>1. Verdicts(a) = {Verdict(x, y)}
    BY <1>4 DEF Verdicts, SecondReader
  <2>2. x \in BOOLEAN /\ y \in BOOLEAN
    OBVIOUS
  <2>3. /\ Verdict(x, y) \in [checked : BOOLEAN, supported : BOOLEAN]
        /\ Verdict(x, y).supported = y
    BY <1>1, <2>2
  <2>. QED BY <1>4, <2>1, <2>3
<1>. QED BY <1>2, <1>3, <1>4 DEF Purpose

LEMMA HandOnStep ==
  ASSUME IInv, NEW c \in Caller, HandOn(c), purpose \in Purpose
  PROVE  IInv'
<1>1. /\ at[c] = "parse" /\ Return(c)
      /\ given' = given \union {answer[c]}
      /\ verdicts' = verdicts \union Verdicts(answer[c])
      /\ UNCHANGED <<purpose, name, content, said, overlapped>>
  BY DEF HandOn
<1>2. answer[c] \in said /\ answer[c] \in Answer
  BY <1>1 DEF IInv, TypeOK, AllSaid
<1>3. TypeOK'
  BY <1>1, <1>2, VerdictsOfAnswer DEF IInv, TypeOK, Return, Goto, Stage
<1>4. AllSaid'
  BY <1>1 DEF IInv, TypeOK, AllSaid, Return, Goto
<1>5. NothingIsInvented'
  BY <1>1, <1>2, VerdictsOfAnswer DEF IInv, NothingIsInvented
<1>6. ~overlapped' => OneAsks' /\ InStep'
  BY <1>1 DEF IInv, TypeOK, OneAsks, InStep, Asking, Return, Goto
<1>. QED BY <1>3, <1>4, <1>5, <1>6 DEF IInv

LEMMA NextIInv == IInv /\ [Next]_vars => IInv'
<1>. SUFFICES ASSUME IInv, [Next]_vars PROVE IInv'
  OBVIOUS
<1>1. CASE Next
  <2>. PICK c \in Caller :
         \/ Ask(c) \/ Hit(c) \/ HitRaises(c) \/ Miss(c) \/ MissOffline(c)
         \/ ModelAnswers(c) \/ Unreachable(c)
         \/ Open(c) \/ WriteText(c) \/ Replace(c) \/ ReplaceRaises(c)
         \/ HandOn(c) \/ Stop(c)
    BY <1>1 DEF Next
  <2>1. purpose \in Purpose
    BY DEF IInv, TypeOK
  <2>. QED BY <2>1, QuietSteps, HitStep, ModelAnswersStep, UnreachableStep, OpenStep,
              WriteTextStep, ReplaceStep, HandOnStep
<1>2. CASE UNCHANGED vars
  BY <1>2 DEF vars, IInv, TypeOK, AllSaid, NothingIsInvented, OneAsks, InStep
<1>. QED BY <1>1, <1>2

LEMMA Invariance == Spec => []IInv
  BY InitIInv, NextIInv, PTL DEF Spec
-----------------------------------------------------------------------------
\* Everyone who asks for the entry gets one and the same text, before and after
\* any kill (ResponseCache.get() and put()).
THEOREM ByteIdentical == Spec => []RetrySaysTheSame
<1>1. IInv => RetrySaysTheSame
  BY DEF IInv, InStep, RetrySaysTheSame
<1>. QED BY <1>1, Invariance, PTL

\* The entry is whole whenever it exists, and put() finds what it wrote.
THEOREM Whole == Spec => []EntryIsWhole
<1>1. IInv => EntryIsWhole
  BY NoFileIsNone DEF IInv, InStep, EntryIsWhole
<1>. QED BY <1>1, Invariance, PTL

\* Whatever the callers do to each other's files, only what a model said is
\* handed on, and an entailment verdict never passes unread.
THEOREM NoInvention == Spec => []NothingIsInvented
<1>1. IInv => NothingIsInvented
  BY DEF IInv
<1>. QED BY <1>1, Invariance, PTL
=============================================================================
