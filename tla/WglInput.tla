------------------------------ MODULE WglInput ------------------------------
(***************************************************************************)
(* Importing a JSONL history for the kaya-wgl explorer and printing its    *)
(* operations back (crates/kaya-sim/src/wgl_jsonl.rs).                     *)
(*                                                                         *)
(* A line is blank, not a JSON object, or an object: a function from field *)
(* names to JSON values.  Text is a sequence of character codes, because   *)
(* what a byte field means depends on its first characters; codes from 128 *)
(* on stand for bytes that are not UTF-8.                                  *)
(***************************************************************************)
EXTENDS Integers, Sequences, FiniteSets, SequencesExt

CONSTANTS WglLines,      \* the lines that may come
          WglMaxLines,   \* lines read at most
          TickTop,       \* u64::MAX
          ClientTop      \* u32::MAX

VARIABLES autoTick, imported, lineNo, verdict

wglVars == <<autoTick, imported, lineNo, verdict>>

Str(text) == [t |-> "string", text |-> text]
Num(n) == [t |-> "number", n |-> n]         \* n < 0: negative or not an integer
Null == [t |-> "null"]
Arr(items) == [t |-> "array", items |-> items]
Obj(fields) == [t |-> "object", fields |-> fields]

IsStr(v) == v.t = "string"

(***************************************************************************)
(* Bytes.  A result that may be an error is a set: empty for an error.     *)
(***************************************************************************)
HexValue(c) == IF c \in 48..57 THEN c - 48 ELSE IF c \in 97..102 THEN c - 87 ELSE c - 55
IsHexDigit(c) == c \in 48..57 \cup 97..102 \cup 65..70
HexDigit(n) == IF n < 10 THEN 48 + n ELSE 87 + n

HexPrefixed(s) == Len(s) >= 2 /\ s[1] = 48 /\ s[2] \in {120, 88}

HexDec(hex) == [i \in 1..(Len(hex) \div 2) |-> 16 * HexValue(hex[2 * i - 1]) + HexValue(hex[2 * i])]
HexEnc(b) == [i \in 1..(2 * Len(b)) |-> HexDigit(IF i % 2 = 1 THEN b[(i + 1) \div 2] \div 16
                                                  ELSE b[i \div 2] % 16)]

ParseBytes(s) ==
    LET hex == SubSeq(s, 3, Len(s))
    IN IF ~HexPrefixed(s) THEN {s}
       ELSE IF Len(hex) % 2 = 0 /\ \A i \in DOMAIN hex : IsHexDigit(hex[i])
            THEN {HexDec(hex)} ELSE {}

Utf8(b) == \A i \in DOMAIN b : b[i] < 128

\* mutant: text that looks like hex is printed as it is
BytesToJsonPlain(b) == IF Utf8(b) THEN b ELSE <<48, 120>> \o HexEnc(b)

BytesToJson(b) == IF Utf8(b) /\ ~HexPrefixed(b) THEN b ELSE <<48, 120>> \o HexEnc(b)

(***************************************************************************)
(* Fields.                                                                 *)
(***************************************************************************)
RejectUnknown(obj, allowed) == DOMAIN obj \subseteq allowed

BytesField(obj, field) ==
    IF field \in DOMAIN obj /\ IsStr(obj[field]) THEN ParseBytes(obj[field].text) ELSE {}

(* {{}} when absent, {} when malformed, {{n}} otherwise. *)
OptionalUint(obj, field, top) ==
    IF field \notin DOMAIN obj THEN {{}}
    ELSE IF obj[field].t = "number" /\ obj[field].n \in 0..top THEN {{obj[field].n}} ELSE {}

ParseErrorObject(v) ==
    IF v.t = "object" /\ DOMAIN v.fields = {"error"} /\ IsStr(v.fields.error)
    THEN {[r |-> "error", text |-> v.fields.error.text]} ELSE {}

ParseOkOrError(v) ==
    IF v = Str(<<111, 107>>) THEN {[r |-> "ok"]} ELSE ParseErrorObject(v)

ParseGetResult(v) ==
    IF v = Null THEN {[r |-> "miss"]}
    ELSE IF IsStr(v) THEN {[r |-> "value", value |-> b] : b \in ParseBytes(v.text)}
    ELSE ParseErrorObject(v)

ParsePair(v) ==
    IF v.t = "array" /\ Len(v.items) = 2 /\ IsStr(v.items[1]) /\ IsStr(v.items[2])
    THEN {<<k, b>> : k \in ParseBytes(v.items[1].text), b \in ParseBytes(v.items[2].text)} ELSE {}

ParseScanResult(v) ==
    IF v.t # "array" THEN ParseErrorObject(v)
    ELSE IF \E i \in DOMAIN v.items : ParsePair(v.items[i]) = {} THEN {}
    ELSE {[r |-> "scan", pairs |-> [i \in DOMAIN v.items |-> CHOOSE p \in ParsePair(v.items[i]) : TRUE]]}

ResultOf(op, v) == IF op = "get" THEN ParseGetResult(v)
                   ELSE IF op = "scan" THEN ParseScanResult(v) ELSE ParseOkOrError(v)

(***************************************************************************)
(* Ticks.  u64 additions wrap in a release build.                          *)
(***************************************************************************)
Inc(t) == (t + 1) % (TickTop + 1)

ParseInterval(obj, auto) ==
    LET start == OptionalUint(obj, "start", TickTop)  end == OptionalUint(obj, "end", TickTop)
    IN IF start = {} \/ end = {} THEN {}
       ELSE IF start = {{}} /\ end = {{}}
            THEN {[s |-> auto, e |-> Inc(auto), auto |-> Inc(Inc(auto))]}
       ELSE {[s |-> s, e |-> e, auto |-> IF Inc(e) > auto THEN Inc(e) ELSE auto] :
               s \in {x \in UNION start : end # {{}}}, e \in {x \in UNION end : start # {{}}}}

ProperInterval(obj, auto) ==
    {i \in ParseInterval(obj, auto) : "start" \in DOMAIN obj => i.s < i.e}

(***************************************************************************)
(* A line.                                                                 *)
(***************************************************************************)
BytesNames(op) == IF op = "put" THEN {"key", "value"}
                  ELSE IF op = "scan" THEN {"prefix"} ELSE {"key"}

Common == {"client", "start", "end", "op", "result"}

FinishEntry(obj, auto, op, bytes, result) ==
    {[entry |-> [start |-> i.s, end |-> i.e, client |-> c, op |-> op, bytes |-> bytes, result |-> result],
      auto |-> i.auto] : c \in OptionalUint(obj, "client", ClientTop), i \in ProperInterval(obj, auto)}

ParseLine(obj, auto) ==
    LET op == obj.op.word
    IN IF "op" \notin DOMAIN obj \/ op \notin {"put", "get", "delete", "scan"} THEN {}
       ELSE IF ~RejectUnknown(obj, Common \cup BytesNames(op)) THEN {}
       ELSE IF \E f \in BytesNames(op) : BytesField(obj, f) = {} THEN {}
       ELSE IF "result" \notin DOMAIN obj THEN {}
       ELSE UNION {FinishEntry(obj, auto, op,
                       [f \in BytesNames(op) |-> CHOOSE b \in BytesField(obj, f) : TRUE], r) :
                   r \in ResultOf(op, obj.result)}

(***************************************************************************)
(* Printing an operation.                                                  *)
(***************************************************************************)
ResultJson(r) ==
    CASE r.r = "ok" -> Str(<<111, 107>>)
      [] r.r = "miss" -> Null
      [] r.r = "value" -> Str(BytesToJson(r.value))
      [] r.r = "scan" -> Arr([i \in DOMAIN r.pairs |->
                              Arr(<<Str(BytesToJson(r.pairs[i][1])), Str(BytesToJson(r.pairs[i][2]))>>)])
      [] r.r = "error" -> Obj([error |-> Str(r.text)])

EntryJson(e) ==
    [f \in {"start", "end", "op", "result"} \cup DOMAIN e.bytes
           \cup (IF e.client = {} THEN {} ELSE {"client"}) |->
       CASE f = "start" -> Num(e.start)
         [] f = "end" -> Num(e.end)
         [] f = "client" -> Num(CHOOSE c \in e.client : TRUE)
         [] f = "op" -> [t |-> "word", word |-> e.op]
         [] f = "result" -> ResultJson(e.result)
         [] OTHER -> Str(BytesToJson(e.bytes[f]))]

(***************************************************************************)
(* Reading the file, one line at a time.                                   *)
(***************************************************************************)
WglInit == autoTick = 0 /\ imported = <<>> /\ lineNo = 0 /\ verdict = "reading"

(* `timed' remembers whether the line gave its own ticks. *)
ReadLine ==
    /\ verdict = "reading" /\ lineNo < WglMaxLines
    /\ lineNo' = lineNo + 1
    /\ \E line \in WglLines :
         \/ /\ line.form = "blank" /\ UNCHANGED <<autoTick, imported, verdict>>
         \/ /\ line.form = "garbage" /\ verdict' = "refused" /\ UNCHANGED <<autoTick, imported>>
         \/ /\ line.form = "object" /\ ParseLine(line.fields, autoTick) = {}
            /\ verdict' = "refused" /\ UNCHANGED <<autoTick, imported>>
         \/ /\ line.form = "object"
            /\ \E x \in ParseLine(line.fields, autoTick) :
                 /\ autoTick' = x.auto
                 /\ imported' = Append(imported, [timed |-> "start" \in DOMAIN line.fields, entry |-> x.entry])
            /\ UNCHANGED verdict

WglNext == ReadLine

WglSpec == WglInit /\ [][WglNext]_wglVars

(***************************************************************************)
(* Properties.                                                             *)
(***************************************************************************)
(* An operation listed without ticks comes, in real time, after every      *)
(* operation listed above it (parse_interval's auto_tick): otherwise the   *)
(* checker may order them the other way round.                             *)
UntimedFollowsEarlier ==
    \A j \in DOMAIN imported : ~imported[j].timed =>
        \A i \in 1..(j - 1) : imported[i].entry.end < imported[j].entry.start

(* An operation printed in a report, apart from its index, reads back as   *)
(* the operation it was: text that begins like hex and bytes that are not  *)
(* UTF-8 included (bytes_to_json against parse_bytes).                     *)
ReportReadsBack ==
    \A j \in DOMAIN imported :
        {x.entry : x \in ParseLine(EntryJson(imported[j].entry), 0)} = {imported[j].entry}
=============================================================================
