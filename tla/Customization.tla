---------------------------- MODULE Customization ----------------------------
(***************************************************************************)
(* The .directory file of one directory (customization.go): its lines as   *)
(* an order-preserving document that requests edit key by key, the list of *)
(* pinned names kept under one of the keys, and what desktop.ini           *)
(* contributes to the look of the directory.                               *)
(*                                                                         *)
(* PUT, PATCH and the pin request all read the file, edit the document in  *)
(* memory and write the file as a whole; nothing excludes two of them.     *)
(* Text is a sequence of characters, since escaping, trimming and line     *)
(* breaks matter; layout (spaces around "=", the byte-order mark) is left  *)
(* out.  Names of keys and groups are plain, and no line but one of kind   *)
(* "long" is longer than what the scanners take (customization.go:164,     *)
(* 240).                                                                   *)
(***************************************************************************)
EXTENDS Naturals, Sequences, FiniteSets, SequencesExt, FiniteSetsExt

CONSTANTS
  Desktop, App, Shell,     \* the groups [Desktop Entry], [X-Files-Workbench], [.ShellClassInfo]
  Name, Icon, Comment,     \* keys of the look, and of the app's list
  Pinned, Type,            \* Type=Directory opens a fresh document
  Space, Break, Semi, Esc, \* the characters " ", line break, ";" and "\"
  Directory,               \* ... and others
  DirFiles, IniFiles,      \* the .directory and desktop.ini a run starts from
  Requests,                \* requests, see PutOps, PatchOps and PinEdit; no
                           \* PATCH names the key Pinned
  Slot,                    \* requests in progress
  MaxRequests,             \* BOUND: requests
  MaxFaults                \* BOUND: crashes of the server, reads that fail, writes that
                           \* end half-way

ASSUME CustomizationAssumption ==
  /\ Cardinality({Desktop, App, Shell}) = 3
  /\ Cardinality({Name, Icon, Comment, Pinned, Type}) = 5
  /\ Cardinality({Space, Break, Semi, Esc, Directory}) = 5
  /\ MaxRequests \in Nat /\ MaxFaults \in Nat

VARIABLES
  file,      \* the lines of .directory, or NoFile
  ini,       \* those of desktop.ini; nothing writes it
  req, pc,   \* the request in a slot and what it does next
  doc,       \* the document it will write
  requests, faults,
  twice,     \* history: the keys the file had twice when the run started
  want,      \* history: the value of every key, by the requests answered
  pins,      \* history: the list of pinned names, by the requests answered
  before,    \* history: the file when r started, while r is alone
  alone,     \* history: no other request was in progress since r started
  blind,     \* history: the requests that could not read a .directory that is there
  misread,   \* history: a request could not read a file that is there, or read
             \* .directory between another's read and write
  garbled,   \* history: Break: a text with a line break was written; Space: a
             \* pin list that starts with a blank was
  cut        \* history: a write ended half-way, by an error or a crash

history == <<twice, want, pins, before, alone, blind, misread, garbled, cut>>
vars    == <<file, ini, req, pc, doc, requests, faults, history>>

-----------------------------------------------------------------------------
(* Lines and documents. *)

NoFile  == <<[kind |-> "none"]>>
Nothing == <<>>   \* the empty text, which is what a missing key reads as

\* What is written on a line, and the line of a document: with its group.
Header(s)     == [kind |-> "section", key |-> s, value |-> Nothing]
Pair(k, v)    == [kind |-> "kv", key |-> k, value |-> v]
Blank         == [kind |-> "raw", key |-> "", value |-> Nothing]
Remark        == [kind |-> "raw", key |-> "#", value |-> Nothing]
Other(v)      == [kind |-> "raw", key |-> "other", value |-> v]
OverLong      == [kind |-> "long", key |-> "", value |-> Nothing]
In(s, l)      == [kind |-> l.kind, key |-> l.key, value |-> l.value, section |-> s]

Trim(v) ==
  LET ink == {i \in DOMAIN v : v[i] # Space}
  IN  IF ink = {} THEN Nothing ELSE SubSeq(v, Min(ink), Max(ink))

\* The group of a line is that of the last header up to it.
GroupAt(f, i) ==
  LET headers == {j \in 1 .. i : f[j].kind = "section"}
  IN  IF headers = {} THEN "" ELSE f[Max(headers)].key

Grouped(f) ==
  [i \in DOMAIN f |-> In(GroupAt(f, i),
     IF f[i].kind = "kv" THEN Pair(f[i].key, Trim(f[i].value)) ELSE f[i])]

HasLong(f) == \E i \in DOMAIN f : f[i].kind = "long"

\* The scanner stops at a line that is too long, and nobody asks it why.
ParseIniDoc(f) ==
  Grouped(IF HasLong(f) THEN SubSeq(f, 1, Min({i \in DOMAIN f : f[i].kind = "long"}) - 1)
          ELSE f)

\* bytes: every line as it was, without its group.  A value is written as it is:
\* what follows a line break in it is a line of its own.
Pieces(v) ==
  FoldLeft(LAMBDA ps, c : IF c = Break THEN Append(ps, Nothing)
                          ELSE Front(ps) \o <<Append(Last(ps), c)>>, <<Nothing>>, v)

Bytes(d) ==
  LET Written(l) ==
        IF l.kind # "kv" THEN <<[kind |-> l.kind, key |-> l.key, value |-> l.value]>>
        ELSE LET ps == Pieces(l.value)
             IN  [i \in DOMAIN ps |-> IF i = 1 THEN Pair(l.key, ps[i])
                                      ELSE IF Trim(ps[i]) = Nothing THEN Blank ELSE Other(ps[i])]
  IN  FlattenSeq([i \in DOMAIN d |-> Written(d[i])])

Hits(d, s, k) == {i \in DOMAIN d : d[i].kind = "kv" /\ d[i].section = s /\ d[i].key = k}

\* get, and parseINI: the first of several lines with one key wins.
Get(d, s, k) == LET h == Hits(d, s, k) IN IF h = {} THEN Nothing ELSE d[Min(h)].value

\* Mutation: a new key goes to the end of the file.
SetKeyAtEnd(d, s, k, v) ==
  IF Hits(d, s, k) # {} THEN [d EXCEPT ![Min(Hits(d, s, k))].value = v]
  ELSE d \o (IF \E i \in DOMAIN d : d[i].kind = "section" /\ d[i].section = s
             THEN Nothing ELSE <<In(s, Header(s))>>) \o <<In(s, Pair(k, v))>>

\* set: in place, else after the last header or key of its group, else in a
\* group of its own.  The blank line that is to precede a new group is added
\* only behind a header or a text: a key's line keeps none.
SetKey(d, s, k, v) ==
  LET own == {i \in DOMAIN d : d[i].section = s /\ d[i].kind \in {"section", "kv"}}
      new == In(s, Pair(k, v))
      gap == d # <<>> /\ Last(d).kind # "kv" /\ Last(d) # In(Last(d).section, Blank)
  IN  IF Hits(d, s, k) # {} THEN [d EXCEPT ![Min(Hits(d, s, k))].value = v]
      ELSE IF \E i \in own : d[i].kind = "section" THEN InsertAt(d, Max(own) + 1, new)
      ELSE d \o (IF gap THEN <<In("", Blank)>> ELSE <<>>) \o <<In(s, Header(s)), new>>

\* Mutation: the key is looked for in every group.
DelKeyAnyGroup(d, s, k) ==
  LET h == {i \in DOMAIN d : d[i].kind = "kv" /\ d[i].key = k}
  IN  IF h = {} THEN d ELSE RemoveAt(d, Min(h))

\* del: the first line with the key.
DelKey(d, s, k) == LET h == Hits(d, s, k) IN IF h = {} THEN d ELSE RemoveAt(d, Min(h))

\* parseDesktopIni: only the shell's group counts.
IsShell(f) == \E i \in DOMAIN f : f[i].kind = "section" /\ f[i].key = Shell

ShellValue(i, k) == IF i # NoFile /\ IsShell(i) THEN Get(ParseIniDoc(i), Shell, k) ELSE Nothing

\* Mutation: the value goes to the app's own group.
SeedKeyApp(d, i, k) ==
  LET v == ShellValue(i, k) IN IF v = Nothing THEN d ELSE SetKey(d, App, k, v)

SeedKey(d, i, k) ==
  LET v == ShellValue(i, k) IN IF v = Nothing THEN d ELSE SetKey(d, Desktop, k, v)

\* What reading .directory and desktop.ini gave: NoFile also when it failed.
LoadOrSeed(f, i) ==
  IF f # NoFile THEN ParseIniDoc(f)
  ELSE LET fresh == <<In(Desktop, Header(Desktop)), In(Desktop, Pair(Type, <<Directory>>))>>
       IN  SeedKey(SeedKey(fresh, i, Icon), i, Comment)

-----------------------------------------------------------------------------
(* The list of pinned names. *)

\* Mutation: a name is written as it is.
FormatUnescaped(names) == FlattenSeq([i \in DOMAIN names |-> names[i] \o <<Semi>>])

FormatPinnedList(names) ==
  LET Escaped(n) == FlattenSeq([i \in DOMAIN n |->
                      IF n[i] \in {Semi, Esc} THEN <<Esc, n[i]>> ELSE <<n[i]>>])
  IN  FlattenSeq([i \in DOMAIN names |-> IF names[i] = Nothing THEN Nothing
                                         ELSE Escaped(names[i]) \o <<Semi>>])

ParsePinnedList(v) ==
  LET Flush(a) == IF a.started THEN [a EXCEPT !.out = Append(@, a.cur), !.cur = Nothing,
                                             !.started = FALSE]
                  ELSE a
      Read(a, c) ==
        IF a.esc THEN [a EXCEPT !.cur = Append(@, c), !.esc = FALSE]
        ELSE IF c = Esc THEN [a EXCEPT !.esc = TRUE, !.started = TRUE]
        ELSE IF c = Semi THEN Flush(a)
        ELSE [a EXCEPT !.cur = Append(@, c), !.started = TRUE]
  IN  Flush(FoldLeft(Read, [out |-> <<>>, cur |-> Nothing, esc |-> FALSE, started |-> FALSE], v)).out

AddName(list, n) == IF n = Nothing \/ Contains(list, n) THEN list ELSE Append(list, n)

\* The present list without repetitions, and the names added or left out.
PinResult(list, q) ==
  LET kept == SelectSeq(FoldLeft(AddName, <<>>, list),
                        LAMBDA n : q.pinned \/ ~Contains(q.names, n))
  IN  IF q.pinned THEN FoldLeft(AddName, kept, q.names) ELSE kept

PinEdit(d, q) ==
  LET list == PinResult(ParsePinnedList(Get(d, App, Pinned)), q)
  IN  IF list = <<>> THEN DelKey(d, App, Pinned)
      ELSE SetKey(d, App, Pinned, FormatPinnedList(list))

-----------------------------------------------------------------------------
(* Requests.  An operation is [op, section, key, value]; a PUT has the typed *)
(* fields, where "keep" stands for null.                                     *)

TypedField(k, f) ==
  IF f = "keep" THEN <<>>
  ELSE <<[op |-> IF f = Nothing THEN "delete" ELSE "set", section |-> Desktop, key |-> k, value |-> f]>>

PutOps(q) ==
  TypedField(Name, q.name) \o TypedField(Icon, q.icon) \o TypedField(Comment, q.comment)

PatchOps(q) == q.ops

OpsOf(q) == CASE q.kind = "put" -> PutOps(q) [] q.kind = "patch" -> PatchOps(q) [] OTHER -> <<>>

Refused(q) == \E i \in DOMAIN OpsOf(q) : OpsOf(q)[i].op \notin {"set", "delete"}

Apply(d, o) ==
  IF o.op = "set" THEN SetKey(d, o.section, o.key, o.value)
  ELSE IF o.op = "delete" THEN DelKey(d, o.section, o.key) ELSE d

Edited(d, q) == IF q.kind = "pin" THEN PinEdit(d, q) ELSE FoldLeft(Apply, d, OpsOf(q))

NoRequest == [kind |-> "none"]
Answers   == {"ok", "failed"}
Active(r) == pc[r] \notin {"idle"} \cup Answers
Places    == {Desktop, App} \X {Name, Icon, Comment, Type}

\* The values in a file, and its pinned names as a listing reads them.
ValuesIn(f) == [p \in Places |-> Get(ParseIniDoc(f), p[1], p[2])]
PinsIn(f)   == ParsePinnedList(Get(ParseIniDoc(f), App, Pinned))

\* The keys a file has twice: removing one uncovers the other.
Twice(f) == {p \in Places : Cardinality(Hits(ParseIniDoc(f), p[1], p[2])) > 1}

Init ==
  /\ file \in DirFiles \cup {NoFile} /\ ini \in IniFiles \cup {NoFile}
  /\ req = [r \in Slot |-> NoRequest] /\ pc = [r \in Slot |-> "idle"]
  /\ doc = [r \in Slot |-> <<>>] /\ requests = 0 /\ faults = 0
  /\ LET first == Bytes(LoadOrSeed(file, ini))
     IN  twice = Twice(first) /\ want = ValuesIn(first) /\ pins = PinsIn(first)
  /\ before = [r \in Slot |-> NoFile] /\ alone = [r \in Slot |-> FALSE]
  /\ blind = {} /\ misread = FALSE /\ garbled = {} /\ cut = FALSE

Begin(r, q) ==
  /\ ~Active(r) /\ requests < MaxRequests /\ requests' = requests + 1
  /\ req' = [req EXCEPT ![r] = q] /\ pc' = [pc EXCEPT ![r] = "load"]
  /\ alone' = [o \in Slot |-> o = r /\ \A s \in Slot : ~Active(s)]
  /\ before' = [o \in Slot |-> IF alone'[o] THEN file ELSE NoFile]
  /\ blind' = blind \ {r}
  /\ UNCHANGED <<file, ini, doc, faults, twice, want, pins, misread, garbled, cut>>

\* The file is read and the document edited; any error of the read is taken for
\* a file that is not there.  An operation that is not known ends the request
\* with nothing written.
Load(r) ==
  /\ pc[r] = "load"
  /\ \E f \in {file, NoFile} : \E i \in (IF f = NoFile THEN {ini, NoFile} ELSE {ini}) :
       /\ doc' = [doc EXCEPT ![r] = IF Refused(req[r]) THEN <<>>
                                   ELSE Edited(LoadOrSeed(f, i), req[r])]
       /\ faults' = (IF <<f, i>> = <<file, ini>> THEN faults ELSE faults + 1)
       /\ faults' <= MaxFaults
       /\ blind' = IF f = file THEN blind ELSE blind \cup {r}
       /\ misread' = (\/ misread \/ <<f, i>> # <<file, ini>>
                      \/ \E o \in Slot \ {r} : pc[o] \in {"open", "write"})
  /\ pc' = [pc EXCEPT ![r] = IF Refused(req[r]) THEN "failed" ELSE "open"]
  /\ UNCHANGED <<file, ini, req, requests, twice, want, pins, before, alone, garbled, cut>>

\* os.WriteFile opens the file and cuts it to nothing, if it may.
Open(r) ==
  /\ pc[r] = "open"
  /\ \/ pc' = [pc EXCEPT ![r] = "write"] /\ file' = <<>>
     \/ pc' = [pc EXCEPT ![r] = "failed"] /\ UNCHANGED file
  /\ UNCHANGED <<ini, req, doc, requests, faults, history>>

\* What the edits ask for, said of values instead of lines.
Asked(m, o) ==
  IF <<o.section, o.key>> \notin DOMAIN m THEN m
  ELSE [m EXCEPT ![<<o.section, o.key>>] = IF o.op = "set" THEN Trim(o.value) ELSE Nothing]

AskedPins(list, q) ==
  IF q.kind # "pin" THEN list
  ELSE IF q.pinned THEN list \o SelectSeq(q.names, LAMBDA n : ~Contains(list, n))
  ELSE SelectSeq(list, LAMBDA n : ~Contains(q.names, n))

TextsOf(q) == IF q.kind = "pin" THEN ToSet(q.names) ELSE {OpsOf(q)[i].value : i \in DOMAIN OpsOf(q)}

HasBreak(q) == \E v \in TextsOf(q) : Contains(v, Break)

BlankFirst(d) == LET v == Get(d, App, Pinned) IN v # Nothing /\ Head(v) = Space

\* ... and writes it, or as much of it as the disk takes.
Write(r) ==
  /\ pc[r] = "write"
  /\ \/ /\ file' = Bytes(doc[r])
        /\ pc' = [pc EXCEPT ![r] = "ok"]
        /\ want' = FoldLeft(Asked, want, OpsOf(req[r]))
        /\ pins' = AskedPins(pins, req[r])
        /\ garbled' = garbled \cup (IF HasBreak(req[r]) THEN {Break} ELSE {})
                              \cup (IF BlankFirst(doc[r]) THEN {Space} ELSE {})
        /\ UNCHANGED <<cut, faults>>
     \/ /\ faults < MaxFaults /\ faults' = faults + 1
        /\ pc' = [pc EXCEPT ![r] = "failed"] /\ cut' = TRUE
        /\ UNCHANGED <<file, want, pins, garbled>>
  /\ doc' = [doc EXCEPT ![r] = <<>>]
  /\ UNCHANGED <<ini, req, requests, twice, before, alone, blind, misread>>

Crash ==
  /\ faults < MaxFaults /\ faults' = faults + 1
  /\ cut' = (cut \/ \E r \in Slot : pc[r] = "write")
  /\ req' = [r \in Slot |-> NoRequest] /\ pc' = [r \in Slot |-> "idle"]
  /\ doc' = [r \in Slot |-> <<>>] /\ alone' = [r \in Slot |-> FALSE]
  /\ before' = [r \in Slot |-> NoFile] /\ blind' = {}
  /\ UNCHANGED <<file, ini, requests, twice, want, pins, misread, garbled>>

Next ==
  \/ \E r \in Slot : Load(r) \/ Open(r) \/ Write(r) \/ \E q \in Requests : Begin(r, q)
  \/ Crash

Spec == Init /\ [][Next]_vars

-----------------------------------------------------------------------------
(* Properties. *)

Quiet == \A r \in Slot : ~Active(r)

\* What a document says of the group of each line is what a reader of the file
\* will find: set puts a key where it belongs (customization.go:290).
TypeOK ==
  /\ pc \in [Slot -> {"idle", "load", "open", "write"} \cup Answers]
  /\ requests \in 0 .. MaxRequests /\ faults \in 0 .. MaxFaults
  /\ \A r \in Slot : \A i \in DOMAIN doc[r] :
       doc[r][i].kind # "raw" => doc[r][i].section = GroupAt(doc[r], i)

\* At rest every key has the value that the answered requests gave it, one after
\* the other, and the pinned names are those pinned and not unpinned since, in
\* order, whatever ";", "\" and blanks are in them: the document is a map to
\* whoever edits it.  Left out are requests that overlapped or could not read the
\* file, writes that ended half-way, keys the file had twice from the start, all
\* that follows a text with a line break, which is written as it is, and the pins
\* after a list whose first name starts with a blank, which is trimmed away.
QuietFileIsAsAsked ==
  Quiet /\ ~misread /\ ~cut /\ Break \notin garbled /\ file # NoFile =>
    /\ \A p \in Places \ twice : ValuesIn(file)[p] = want[p]
    /\ Space \notin garbled => PinsIn(file) = pins

Touched(q) ==
  IF q.kind = "pin" THEN {<<App, Pinned>>}
  ELSE {<<OpsOf(q)[i].section, OpsOf(q)[i].key>> : i \in DOMAIN OpsOf(q)}

\* The keys and comments of a file that a request does not name, in order and
\* each in its group.
Others(f, q) ==
  SelectSeq(Grouped(f), LAMBDA l :
    (l.kind = "kv" /\ <<l.section, l.key>> \notin Touched(q)) \/ (l.kind = "raw" /\ l.key = "#"))

\* "losslessly (other keys/sections/comments are preserved)" (customization.go:422):
\* a request that is alone leaves every key and comment it does not name where it
\* was, if it could read the file, no line of it was too long for the scanner and
\* the request itself brings no line break; one that fails leaves the whole file,
\* unless the write itself failed.
EditIsLossless ==
  \A r \in Slot : alone[r] /\ before[r] # NoFile =>
    /\ pc[r] = "ok" /\ r \notin blind /\ ~HasLong(before[r]) /\ ~HasBreak(req[r])
         => Others(file, req[r]) = Others(before[r], req[r])
    /\ pc[r] = "failed" /\ ~cut => file = before[r]

FirstOf(vs) == LET some == {i \in DOMAIN vs : vs[i] # Nothing}
               IN  IF some = {} THEN Nothing ELSE vs[Min(some)]

\* readDirCustomization: the app's group before the standard one, .directory
\* before desktop.ini.
ReadDirCustomization(dirFile, iniFile) ==
  LET dot == IF dirFile = NoFile THEN <<>> ELSE ParseIniDoc(dirFile)
      win == IF iniFile # NoFile /\ (\E i \in DOMAIN iniFile :
                iniFile[i].kind = "section" /\ iniFile[i].key \in {Shell, App})
             THEN ParseIniDoc(iniFile) ELSE <<>>
      Field(k) == FirstOf(<<Get(dot, App, k), Get(win, App, k), Get(dot, Desktop, k),
                            IF k = Name THEN Nothing ELSE Get(win, Shell, k)>>)
  IN  [name |-> Field(Name), icon |-> Field(Icon), comment |-> Field(Comment)]

\* "so noteworthy values carry over to the new .directory" (customization.go:359):
\* the request that creates .directory changes nothing of how the directory looks
\* but what it names, if it brings no line break.
FirstEditKeepsLook ==
  \A r \in Slot : alone[r] /\ before[r] = NoFile /\ pc[r] = "ok" /\ ~HasBreak(req[r]) =>
    LET then == ReadDirCustomization(NoFile, ini)
        now  == ReadDirCustomization(file, ini)
        named == {p[2] : p \in Touched(req[r])}
    IN  /\ Name \notin named => now.name = then.name
        /\ Icon \notin named => now.icon = then.icon
        /\ Comment \notin named => now.comment = then.comment
=============================================================================
