----------------------------- MODULE PolicyCSV ------------------------------
(***************************************************************************)
(* How the groups of one policy.csv are read: extractGroupsFromArgoCDPolicy *)
(* of internal/controller/argocd_controller.go, which calls Read of        *)
(* encoding/csv until the end of the text and goes on after an error.      *)
(*                                                                         *)
(* A policy is meant line by line: `g, <group>, <role>` grants a role to a *)
(* group, other kinds and comments do not matter.  The reader is not told  *)
(* about comments, and a record ends at the end of a line only outside of  *)
(* quotes.  A line whose quote is not closed takes the lines after it with *)
(* it, and a group that is not read is one the pass removes.               *)
(*                                                                         *)
(* A text is a sequence of tokens: quotes, commas, blanks, ends of lines   *)
(* and words.  The end of the last line is there, also where a file leaves *)
(* it out: the reader makes no difference.                                 *)
(*                                                                         *)
(* External, modelled from how the code sets it up: the reader             *)
(* (FieldsPerRecord = -1, TrimLeadingSpace, no Comment, no LazyQuotes).    *)
(***************************************************************************)
EXTENDS Naturals, Sequences

CONSTANTS
    Policies,   \* texts
    Word,       \* words; "g" is the kind of the lines that matter
    Id          \* the words that are group UUIDs

Space == {"blank", "newline"}
Token == Word \cup Space \cup {"quote", "comma"}

ASSUME WordAssumption ==
    /\ Id \subseteq Word
    /\ "g" \in Word \ Id
    /\ Word \cap (Space \cup {"quote", "comma"}) = {}
ASSUME PolicyAssumption ==
    \A t \in Policies : t \in Seq(Token) /\ (t # <<>> => t[Len(t)] = "newline")

VARIABLES
    policy,     \* the text
    pos,        \* tokens taken from it
    mode,       \* "record" before a record, "field" before a field, "quoted", "done"
    fields,     \* the finished fields of the record
    text,       \* the quoted field so far
    found       \* the groups to return

vars == <<policy, pos, mode, fields, text, found>>

Init ==
    /\ policy \in Policies
    /\ pos = 0
    /\ mode = "record"
    /\ fields = <<>>
    /\ text = <<>>
    /\ found = {}

-----------------------------------------------------------------------------
(* What the loop does with a record.                                       *)

(* TrimSpace leaves this one word of the field. *)
Is(field, w) ==
    \E i \in DOMAIN field :
        /\ field[i] = w
        /\ \A j \in DOMAIN field : j # i => field[j] \in Space

(* Any word taken for a group. *)
GrantedToAny(fs) ==
    {w \in Word : Len(fs) >= 3 /\ Is(fs[1], "g") /\ Is(fs[2], w)}

(* A record names a role only by its third field. *)
GrantedWithMore(fs) == {id \in Id : Len(fs) > 3 /\ Is(fs[1], "g") /\ Is(fs[2], id)}

(* Fewer than three fields and other kinds, comments among them, are passed *)
(* over, and so is what is no UUID.                                        *)
Granted(fs) == {id \in Id : Len(fs) >= 3 /\ Is(fs[1], "g") /\ Is(fs[2], id)}

-----------------------------------------------------------------------------
(* The reader.                                                             *)

Position == 1..Len(policy)

(* The first token after p that is one of S is at i. *)
FirstAfter(p, i, S) ==
    /\ i > p
    /\ policy[i] \in S
    /\ \A j \in p+1 .. i-1 : policy[j] \notin S

(* The fields of the last record stay. *)
EndRecordKeepsFields(fs, n) ==
    /\ mode' = "record"
    /\ pos' = n
    /\ found' = found \cup Granted(fs)
    /\ fields' = fs
    /\ text' = <<>>

(* The record ends with the line that ends at n. *)
EndRecord(fs, n) ==
    /\ mode' = "record"
    /\ pos' = n
    /\ found' = found \cup Granted(fs)
    /\ fields' = <<>>
    /\ text' = <<>>

(* An error taken for the end of the text. *)
StopReading(p) ==
    /\ mode' = "done"
    /\ pos' = p
    /\ fields' = <<>>
    /\ text' = <<>>
    /\ UNCHANGED found

(* Read returns an error: the rest of the line after p is gone, and the     *)
(* loop continues with the next record.                                    *)
Abandon(p) ==
    /\ mode' = "record"
    /\ \E n \in Position : FirstAfter(p, n, {"newline"}) /\ pos' = n
    /\ fields' = <<>>
    /\ text' = <<>>
    /\ UNCHANGED found

SkipEmptyLine ==
    /\ mode = "record"
    /\ pos < Len(policy)
    /\ policy[pos + 1] = "newline"
    /\ pos' = pos + 1
    /\ UNCHANGED <<policy, mode, fields, text, found>>

BeginRecord ==
    /\ mode = "record"
    /\ pos < Len(policy)
    /\ policy[pos + 1] # "newline"
    /\ mode' = "field"
    /\ UNCHANGED <<policy, pos, fields, text, found>>

EndOfText ==
    /\ mode = "record"
    /\ pos = Len(policy)
    /\ mode' = "done"
    /\ UNCHANGED <<policy, pos, fields, text, found>>

(* A field begins at i: blanks before it are trimmed. *)
FieldAt(i) == FirstAfter(pos, i, Token \ {"blank"})

(* A field that does not begin with a quote must not have one: up to the   *)
(* next comma, or the end of the line and of the record.                   *)
PlainField ==
    /\ mode = "field"
    /\ \E i, e \in Position :
          /\ FieldAt(i) /\ policy[i] # "quote"
          /\ FirstAfter(i - 1, e, {"comma", "newline"})
          /\ LET field == SubSeq(policy, i, e - 1)
                 bare == \E j \in i .. e-1 : policy[j] = "quote"
             IN  \/ /\ bare
                    /\ Abandon(e - 1)
                 \/ /\ ~bare /\ policy[e] = "newline"
                    /\ EndRecord(Append(fields, field), e)
                 \/ /\ ~bare /\ policy[e] = "comma"
                    /\ fields' = Append(fields, field)
                    /\ pos' = e
                    /\ UNCHANGED <<mode, text, found>>
    /\ UNCHANGED policy

OpenQuote ==
    /\ mode = "field"
    /\ \E i \in Position : FieldAt(i) /\ policy[i] = "quote" /\ pos' = i
    /\ mode' = "quoted"
    /\ UNCHANGED <<policy, fields, text, found>>

(* Up to the next quote, be it some lines below: doubled it stands for      *)
(* itself, a comma or the end of the line ends the field, anything else is *)
(* an error.                                                               *)
NextQuote ==
    /\ mode = "quoted"
    /\ \E i \in Position :
          /\ FirstAfter(pos, i, {"quote"})
          /\ LET read == text \o SubSeq(policy, pos + 1, i - 1)
                 next == policy[i + 1]
             IN  \/ /\ next = "quote"
                    /\ text' = Append(read, "quote")
                    /\ pos' = i + 1
                    /\ UNCHANGED <<mode, fields, found>>
                 \/ /\ next = "newline"
                    /\ EndRecord(Append(fields, read), i + 1)
                 \/ /\ next = "comma"
                    /\ fields' = Append(fields, read)
                    /\ text' = <<>>
                    /\ pos' = i + 1
                    /\ mode' = "field"
                    /\ UNCHANGED found
                 \/ /\ next \notin {"quote", "newline", "comma"}
                    /\ Abandon(i)
    /\ UNCHANGED policy

(* At the end of the text the reader waits for the quote's other half. *)
AwaitQuote ==
    /\ mode = "quoted"
    /\ \A i \in pos+1 .. Len(policy) : policy[i] # "quote"
    /\ UNCHANGED vars

(* No quote up to the end of the text is an error. *)
NoQuote ==
    /\ mode = "quoted"
    /\ \A i \in pos+1 .. Len(policy) : policy[i] # "quote"
    /\ Abandon(Len(policy) - 1)
    /\ UNCHANGED policy

Done == mode = "done" /\ UNCHANGED vars

Next ==
    \/ SkipEmptyLine \/ BeginRecord \/ EndOfText
    \/ PlainField \/ OpenQuote \/ NextQuote \/ NoQuote
    \/ Done

Spec == Init /\ [][Next]_vars

(* The loop runs. *)
FairSpec == Spec /\ WF_vars(Next)

-----------------------------------------------------------------------------
(* What a text means, told token by token.                                 *)

(* Where a token leaves the one who reads it: at the start of a field or in *)
(* its leading blanks, in a plain field, in quotes, after a quote that     *)
(* closes unless another follows, or in a line that makes no sense.        *)
Step(state, token) ==
    CASE state = "start"  -> IF token \in {"blank", "comma", "newline"} THEN "start"
                             ELSE IF token = "quote" THEN "quoted" ELSE "plain"
      [] state = "plain"  -> IF token \in {"comma", "newline"} THEN "start"
                             ELSE IF token = "quote" THEN "wrong" ELSE "plain"
      [] state = "quoted" -> IF token = "quote" THEN "closing" ELSE "quoted"
      [] state = "closing" -> IF token \in {"comma", "newline"} THEN "start"
                              ELSE IF token = "quote" THEN "quoted" ELSE "wrong"
      [] state = "wrong"  -> IF token = "newline" THEN "start" ELSE "wrong"

Scan(t) ==
    LET state[i \in 0 .. Len(t)] ==
            IF i = 0 THEN "start" ELSE Step(state[i - 1], t[i])
    IN  state

(* In what follows t is a text and q its scan, and (a, b] goes from after   *)
(* the end of one line to the end of the same or a later one.              *)

Ends(t, i) == i = 0 \/ t[i] = "newline"
RecordEnds(t, q, i) == Ends(t, i) /\ q[i] = "start"
Separates(t, q, i) == t[i] = "comma" /\ q[i] = "start"

IsLine(t, a, b) ==
    /\ Ends(t, a) /\ Ends(t, b) /\ a < b
    /\ \A i \in a+1 .. b-1 : ~Ends(t, i)

IsRecord(t, q, a, b) ==
    /\ RecordEnds(t, q, a) /\ RecordEnds(t, q, b) /\ a < b
    /\ \A i \in a+1 .. b-1 : ~RecordEnds(t, q, i)

(* White space and the quotes around a field do not count. *)
Ignored(t, q, i) ==
    t[i] \in Space \/ (t[i] = "quote" /\ q[i - 1] # "closing")

(* Between lo and hi there is but one word. *)
OneWord(t, q, lo, hi, w) ==
    \E i \in lo+1 .. hi-1 :
        /\ t[i] = w
        /\ \A j \in lo+1 .. hi-1 : j # i => Ignored(t, q, j)

NextSeparator(t, q, lo, i) ==
    /\ i > lo
    /\ Separates(t, q, i)
    /\ \A j \in lo+1 .. i-1 : ~Separates(t, q, j)

(* From a to b stands `g, id, ...` with at least one more field. *)
Grants(t, q, a, b, id) ==
    /\ q[b - 1] # "wrong"
    /\ \E c, d \in a+1 .. b-1 :
          /\ NextSeparator(t, q, a, c) /\ OneWord(t, q, a, c, "g")
          /\ NextSeparator(t, q, c, d) /\ OneWord(t, q, c, d, id)

-----------------------------------------------------------------------------
(* Properties.                                                             *)
TypeOK ==
    /\ policy \in Seq(Token)
    /\ pos \in 0 .. Len(policy)
    /\ mode \in {"record", "field", "quoted", "done"}
    /\ fields \in Seq(Seq(Token))
    /\ text \in Seq(Token)
    /\ found \in SUBSET Id

(* The reader, which goes from field to field and starts anew after an      *)
(* error, finds exactly the groups that the records of the text grant a    *)
(* role to, malformed or not.                                              *)
ReadsRecords ==
    mode = "done" =>
        LET q == Scan(policy)
        IN  found = {id \in Id : \E a, b \in 0 .. Len(policy) :
                        IsRecord(policy, q, a, b) /\ Grants(policy, q, a, b, id)}

(* If no line leaves a quote open, reading records is reading lines.       *)
ReadsLineByLine ==
    mode = "done" =>
        LET q == Scan(policy)
        IN  (\A i \in Position : Ends(policy, i) => q[i] = "start") =>
                found = {id \in Id : \E a, b \in 0 .. Len(policy) :
                            IsLine(policy, a, b) /\ Grants(policy, q, a, b, id)}

(* Malformed lines do no other harm: a line that does not begin within     *)
(* quotes and closes its own is read, whatever errors came before it.      *)
OnlyOpenQuotesHide ==
    mode = "done" =>
        LET q == Scan(policy)
        IN  \A a, b \in 0 .. Len(policy), id \in Id :
                /\ IsLine(policy, a, b) /\ q[a] = "start" /\ q[b] = "start"
                /\ Grants(policy, q, a, b, id)
                => id \in found

(* The loop continues after every error, so it ends only because no error  *)
(* leaves the reader where it was.                                         *)
Terminates == <>(mode = "done")
=============================================================================
