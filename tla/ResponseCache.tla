--------------------------- MODULE ResponseCache ----------------------------
(***************************************************************************)
(* One entry of the response cache (analysis/cache.py) and those who ask   *)
(* for it: the model clients (analysis/client.py), the entailment check    *)
(* and the second reader (validate/), from any thread and any process.     *)
(* Two submissions with one text have one rendition, hence one key.        *)
(*                                                                         *)
(* The files are modelled down to their inodes, because the writers share  *)
(* one temporary name: a writer keeps writing to the file it opened, under *)
(* whatever name that file is known meanwhile.                             *)
(***************************************************************************)
EXTENDS Naturals, FiniteSets

CONSTANTS
  Caller,
  Supporting,  \* answers that parse to "supported": true,
  Denying,     \* ... to "supported": false,
  Garbled,     \* ... and to neither
  NoAnswer,
  Torn         \* a file that is not a whole JSON document

Answer == Supporting \union Denying \union Garbled

ASSUME AnswerAssumption ==
  /\ Supporting \intersect Denying = {}
  /\ Garbled \intersect (Supporting \union Denying) = {}
  /\ NoAnswer \notin Answer /\ Torn \notin Answer

VARIABLES
  purpose,     \* which of the three asks
  name,        \* ["tmp", "entry" -> the file known by that name, or NoFile]
  content,     \* what each file holds
  at,          \* [Caller -> where it is]
  open,        \* [Caller -> the file it has open for writing, or NoFile]
  answer,      \* [Caller -> the answer in hand]
  said,        \* answers the model gave (history)
  given,       \* answers handed on to the caller's own work (history)
  verdicts,    \* what those were taken for (history)
  overlapped   \* two callers were ever past their misses at once (history)

vars == <<purpose, name, content, at, open, answer, said, given, verdicts, overlapped>>

\* Enough files for each caller to hold one beside the two that have names.
File == 1 .. Cardinality(Caller) + 2
NoFile == 0

Purpose == {"analysis", "entailment", "second reader"}
Asking == {"call", "open", "write", "rename"}
Stage == {"idle", "get", "parse"} \union Asking

Unused == File \ ({name[n] : n \in DOMAIN name} \union {open[c] : c \in Caller})

\* Any unused file will do: the first.
NewFile == {f \in Unused : \A u \in Unused : f <= u}
-----------------------------------------------------------------------------
(* What an answer is taken for.                                            *)

Verdict(checked, supported) == [checked |-> checked, supported |-> supported]

\* MUTANT of Entailment: what cannot be parsed passes.
EntailmentLenient(a) == Verdict(TRUE, a \notin Denying)

\* check_entailment(): "An unparseable verdict is not a passing verdict."
Entailment(a) == Verdict(TRUE, a \in Supporting)

\* check_second_reader(): what cannot be parsed counts as not run.
SecondReader(a) == Verdict(a \in Supporting \union Denying, a \in Supporting)

Verdicts(a) ==
  CASE purpose = "analysis" -> {}
    [] purpose = "entailment" -> {Entailment(a)}
    [] purpose = "second reader" -> {SecondReader(a)}
-----------------------------------------------------------------------------
Init ==
  /\ purpose \in Purpose
  /\ name = [n \in {"tmp", "entry"} |-> NoFile]
  /\ content = [f \in File |-> Torn]
  /\ at = [c \in Caller |-> "idle"]
  /\ open = [c \in Caller |-> NoFile]
  /\ answer = [c \in Caller |-> NoAnswer]
  /\ said = {}
  /\ given = {}
  /\ verdicts = {}
  /\ overlapped = FALSE

Goto(c, stage) == at' = [at EXCEPT ![c] = stage]

\* The call returns or raises.
Return(c) ==
  /\ Goto(c, "idle")
  /\ open' = [open EXCEPT ![c] = NoFile]
  /\ answer' = [answer EXCEPT ![c] = NoAnswer]

Ask(c) ==
  /\ at[c] = "idle"
  /\ Goto(c, "get")
  /\ UNCHANGED <<purpose, name, content, open, answer, said, given, verdicts, overlapped>>

\* ResponseCache.get() finds a file that can be parsed; ...
Hit(c) ==
  /\ at[c] = "get"
  /\ name["entry"] # NoFile
  /\ content[name["entry"]] # Torn
  /\ answer' = [answer EXCEPT ![c] = content[name["entry"]]]
  /\ Goto(c, "parse")
  /\ UNCHANGED <<purpose, name, content, open, said, given, verdicts, overlapped>>

\* ... one that cannot, and json.loads() raises; ...
HitRaises(c) ==
  /\ at[c] = "get"
  /\ name["entry"] # NoFile
  /\ content[name["entry"]] = Torn
  /\ Return(c)
  /\ UNCHANGED <<purpose, name, content, said, given, verdicts, overlapped>>

\* ... or none, and the model is asked.
Miss(c) ==
  /\ at[c] = "get"
  /\ name["entry"] = NoFile
  /\ Goto(c, "call")
  /\ overlapped' = (overlapped \/ \E d \in Caller : at[d] \in Asking)
  /\ UNCHANGED <<purpose, name, content, open, answer, said, given, verdicts>>

\* CacheOnlyClient: require() raises MissingCacheEntry.
MissOffline(c) ==
  /\ at[c] = "get"
  /\ purpose # "second reader"
  /\ name["entry"] = NoFile
  /\ Return(c)
  /\ UNCHANGED <<purpose, name, content, said, given, verdicts, overlapped>>

\* MUTANT of AfterAnswer: the answer is handed on and never written.
AfterAnswerUse == "parse"

\* The answer is put into the cache before anyone sees it.
AfterAnswer == "open"

\* The model answers, never twice the same for sure.
ModelAnswers(c) ==
  /\ at[c] = "call"
  /\ \E a \in Answer :
       /\ answer' = [answer EXCEPT ![c] = a]
       /\ said' = said \union {a}
  /\ Goto(c, AfterAnswer)
  /\ UNCHANGED <<purpose, name, content, open, given, verdicts, overlapped>>

\* Ollama cannot be reached: the check counts as not run, and nothing is cached.
Unreachable(c) ==
  /\ at[c] = "call"
  /\ purpose = "second reader"
  /\ verdicts' = verdicts \union {Verdict(FALSE, FALSE)}
  /\ Return(c)
  /\ UNCHANGED <<purpose, name, content, said, given, overlapped>>

\* MUTANT of Scratch: the entry is written in place.
ScratchInPlace == "entry"

\* path.with_suffix(".json.tmp"): the same for every writer of the entry.
Scratch == "tmp"

\* open("w"): the file of that name is emptied, or a new one gets the name.
Open(c) ==
  /\ at[c] = "open"
  /\ \E f \in IF name[Scratch] # NoFile THEN {name[Scratch]} ELSE NewFile :
       /\ name' = [name EXCEPT ![Scratch] = f]
       /\ content' = [content EXCEPT ![f] = Torn]
       /\ open' = [open EXCEPT ![c] = f]
  /\ Goto(c, "write")
  /\ UNCHANGED <<purpose, answer, said, given, verdicts, overlapped>>

\* The text goes to the beginning of the file that was opened.  What another
\* writer had put there is covered, or its end sticks out.
WriteText(c) ==
  /\ at[c] = "write"
  /\ \E left \in {answer[c]} \union
                 (IF content[open[c]] \in {Torn, answer[c]} THEN {} ELSE {Torn}) :
       content' = [content EXCEPT ![open[c]] = left]
  /\ open' = [open EXCEPT ![c] = NoFile]
  /\ Goto(c, "rename")
  /\ UNCHANGED <<purpose, name, answer, said, given, verdicts, overlapped>>

\* tmp.replace(path): whichever file has the temporary name becomes the entry.
Replace(c) ==
  /\ at[c] = "rename"
  /\ name["tmp"] # NoFile
  /\ name' = [tmp |-> NoFile, entry |-> name["tmp"]]
  /\ Goto(c, "parse")
  /\ UNCHANGED <<purpose, content, open, answer, said, given, verdicts, overlapped>>

\* Another writer has renamed it already: FileNotFoundError, and the answer is
\* lost to this caller.
ReplaceRaises(c) ==
  /\ at[c] = "rename"
  /\ name["tmp"] = NoFile
  /\ Return(c)
  /\ UNCHANGED <<purpose, name, content, said, given, verdicts, overlapped>>

\* The answer goes to the caller's own work.
HandOn(c) ==
  /\ at[c] = "parse"
  /\ given' = given \union {answer[c]}
  /\ verdicts' = verdicts \union Verdicts(answer[c])
  /\ Return(c)
  /\ UNCHANGED <<purpose, name, content, said, overlapped>>

\* A kill anywhere; or the model raises or answers nothing, or the disk is full.
Stop(c) ==
  /\ at[c] # "idle"
  /\ Return(c)
  /\ UNCHANGED <<purpose, name, content, said, given, verdicts, overlapped>>

Next ==
  \E c \in Caller :
    \/ Ask(c) \/ Hit(c) \/ HitRaises(c) \/ Miss(c) \/ MissOffline(c)
    \/ ModelAnswers(c) \/ Unreachable(c)
    \/ Open(c) \/ WriteText(c) \/ Replace(c) \/ ReplaceRaises(c)
    \/ HandOn(c) \/ Stop(c)

Spec == Init /\ [][Next]_vars
-----------------------------------------------------------------------------
TypeOK ==
  /\ purpose \in Purpose
  /\ name \in [{"tmp", "entry"} -> File \union {NoFile}]
  /\ content \in [File -> Answer \union {Torn}]
  /\ at \in [Caller -> Stage]
  /\ open \in [Caller -> File \union {NoFile}]
  /\ answer \in [Caller -> Answer \union {NoAnswer}]
  /\ said \subseteq Answer /\ given \subseteq Answer
  /\ verdicts \subseteq [checked : BOOLEAN, supported : BOOLEAN]
  /\ overlapped \in BOOLEAN

\* Whoever asks for the entry, in whichever process, after whatever kill, gets
\* the text the first one got ("what makes a retry at the same attempt number
\* reproduce byte-identical text"), as long as no two ever ask the model at once.
RetrySaysTheSame == ~overlapped => \A a, b \in given : a = b

\* A kill or a full disk in the middle of put() costs nothing: the entry is
\* whole or not there, and the rename finds the file that was written (put():
\* "writing to a temporary file and atomically renaming").
EntryIsWhole ==
  ~overlapped =>
    /\ name["entry"] # NoFile => content[name["entry"]] # Torn
    /\ \A c \in Caller :
         at[c] = "rename" => name["tmp"] # NoFile /\ content[name["tmp"]] = answer[c]

\* However the writers get into each other's files, no text is handed on that no
\* model wrote, and nothing counts as supported unless a model said so
\* (MissingCacheEntry: "never invents a response"; check_entailment(): "the
\* direction a check must never fail in").
NothingIsInvented ==
  /\ given \subseteq said
  /\ (\E v \in verdicts : v.supported) => said \intersect Supporting # {}
  /\ purpose = "entailment" => \A v \in verdicts : v.checked
=============================================================================
