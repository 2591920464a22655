------------------------- MODULE HostRuntimeProofs -------------------------
(***************************************************************************)
(* What is proved about HostRuntime for all disks, command lines and       *)
(* depths: its state stays of its kind, effects begin and end in pairs,    *)
(* require implements its cache, and a required file prints once.          *)
(***************************************************************************)
EXTENDS HostRuntime, TLAPS, SequenceTheorems, FiniteSetTheorems

\* The inductive invariant.  Effects pair up only if a frame is left in the
\* way it was entered, which is what Nested and the frames' types say.
HostInv ==
    /\ disk \in Disks
    /\ cmd \in CommandLine
    /\ TypeOK
    /\ Nested
    /\ DepthPairs

-----------------------------------------------------------------------------
(* Begins whose end is to come, as a function of a stack s and of what the  *)
(* frame on top is about to do.                                             *)

Wraps == {"init", "entry", "require", "requireOpt"}
WrappedIn(s) == {i \in DOMAIN s : s[i].how \in Wraps}
StatementsIn(d, s, c) ==
    {i \in DOMAIN s : d[s[i].path].kind = "do" /\ (i < Len(s) \/ c \in {"exec", "done"})}
OpenIn(d, s, c) == Cardinality(WrappedIn(s)) + Cardinality(StatementsIn(d, s, c))
Front(s) == SubSeq(s, 1, Len(s) - 1)

\* The stack without its top frame.
LEMMA FrontOfStack ==
    ASSUME NEW S, NEW s \in Seq(S), s # <<>>
    PROVE  /\ SubSeq(s, 1, Len(s) - 1) \in Seq(S)
           /\ Len(SubSeq(s, 1, Len(s) - 1)) = Len(s) - 1
           /\ \A i \in 1..(Len(s) - 1) : SubSeq(s, 1, Len(s) - 1)[i] = s[i]
<1>1. PICK n \in Nat : Len(s) - 1 = n
  <2>1. Len(s) \in Nat \ {0}
    BY EmptySeq
  <2>. QED  BY <2>1
<1>2. \A i \in 1..n : s[i] \in S
  <2>1. n \in Nat /\ Len(s) = n + 1
    BY <1>1, LenProperties
  <2>. QED  BY <2>1, ElementOfSeq
<1>3. /\ SubSeq(s, 1, n) \in Seq(S)
      /\ Len(SubSeq(s, 1, n)) = IF 1 <= n THEN n - 1 + 1 ELSE 0
      /\ \A i \in 1..(n - 1 + 1) : SubSeq(s, 1, n)[i] = s[1 + i - 1]
  BY <1>2, SubSeqProperties
<1>4. \A p : p \in Seq(S) /\ Len(p) = (IF 1 <= n THEN n - 1 + 1 ELSE 0)
                /\ (\A i \in 1..(n - 1 + 1) : p[i] = s[1 + i - 1])
            => Len(p) = n /\ \A i \in 1..n : p[i] = s[i]
  OBVIOUS
<1>. QED  BY <1>1, <1>3, <1>4

\* DepthPairs says that depth is OpenIn.
LEMMA PairsAreOpen ==
    /\ DepthPairs <=> (ctl # "exit" => depth = IF strict THEN OpenIn(disk, stack, ctl) ELSE 0)
    /\ DepthPairs' <=> (ctl' # "exit" =>
                          depth' = IF strict' THEN OpenIn(disk', stack', ctl') ELSE 0)
<1>1. Wrapped = WrappedIn(stack) /\ Wrapped' = WrappedIn(stack')
  BY DEF Wrapped, WrappedIn, Wraps
<1>2. InStatement = StatementsIn(disk, stack, ctl)
  BY DEF InStatement, StatementsIn, InBlock
<1>3. InStatement' = StatementsIn(disk', stack', ctl')
  BY DEF InStatement, StatementsIn, InBlock
<1>. QED  BY <1>1, <1>2, <1>3 DEF DepthPairs, OpenIn

\* Both sets are finite.
LEMMA OpenFinite ==
    ASSUME NEW d, NEW s \in Seq(Frame), NEW c
    PROVE  /\ IsFiniteSet(WrappedIn(s)) /\ Cardinality(WrappedIn(s)) \in Nat
           /\ IsFiniteSet(StatementsIn(d, s, c)) /\ Cardinality(StatementsIn(d, s, c)) \in Nat
           /\ OpenIn(d, s, c) \in Nat
<1>1. DOMAIN s = 1..Len(s) /\ Len(s) \in Nat
  BY LenProperties
<1>2. IsFiniteSet(DOMAIN s)
  BY <1>1, FS_Interval
<1>3. WrappedIn(s) \in SUBSET DOMAIN s /\ StatementsIn(d, s, c) \in SUBSET DOMAIN s
  BY DEF WrappedIn, StatementsIn
<1>4. IsFiniteSet(WrappedIn(s)) /\ IsFiniteSet(StatementsIn(d, s, c))
  BY <1>2, <1>3, FS_Subset
<1>5. Cardinality(WrappedIn(s)) \in Nat /\ Cardinality(StatementsIn(d, s, c)) \in Nat
  BY <1>4, FS_CardinalityType
<1>. QED  BY <1>4, <1>5 DEF OpenIn

\* Nothing is open when nothing is under evaluation.
LEMMA OpenEmpty ==
    ASSUME NEW d, NEW c
    PROVE  OpenIn(d, <<>>, c) = 0
<1>1. WrappedIn(<<>>) = {} /\ StatementsIn(d, <<>>, c) = {}
  BY DEF WrappedIn, StatementsIn
<1>2. Cardinality({}) = 0
  BY FS_EmptySet
<1>3. OpenIn(d, <<>>, c) = Cardinality({}) + Cardinality({})
  BY <1>1 DEF OpenIn
<1>. QED  BY <1>2, <1>3

\* A position that is new, or none.
LEMMA CountOne ==
    ASSUME NEW S, IsFiniteSet(S), NEW x, x \notin S, NEW more \in BOOLEAN,
           Cardinality(S) \in Nat
    PROVE  Cardinality(IF more THEN S \cup {x} ELSE S) =
              Cardinality(S) + (IF more THEN 1 ELSE 0)
<1>1. Cardinality(S \cup {x}) = Cardinality(S) + 1
  BY FS_AddElement
<1>2. CASE more
  BY <1>1, <1>2
<1>3. CASE ~more
  BY <1>3
<1>. QED  BY <1>2, <1>3

\* A script is entered: from a statement, or by the host when s is empty.
LEMMA OpenPush ==
    ASSUME NEW d, NEW s \in Seq(Frame), NEW f \in Frame, NEW c \in {"exec", "done"}
    PROVE  OpenIn(d, Append(s, f), "begin") =
              OpenIn(d, s, c) + (IF f.how \in Wraps THEN 1 ELSE 0)
<1>. DEFINE n == Len(s)
            t == Append(s, f)
<1>1. /\ n \in Nat /\ DOMAIN s = 1..n /\ Len(t) = n + 1 /\ DOMAIN t = 1..(n + 1)
      /\ \A i \in 1..n : t[i] = s[i]
      /\ t[n + 1] = f
  BY AppendProperties, LenProperties
<1>2. WrappedIn(t) = IF f.how \in Wraps THEN WrappedIn(s) \cup {n + 1} ELSE WrappedIn(s)
  BY <1>1 DEF WrappedIn
<1>3. n + 1 \notin WrappedIn(s)
  BY <1>1 DEF WrappedIn
<1>4. Cardinality(WrappedIn(t)) =
         Cardinality(WrappedIn(s)) + (IF f.how \in Wraps THEN 1 ELSE 0)
  <2>1. IsFiniteSet(WrappedIn(s)) /\ Cardinality(WrappedIn(s)) \in Nat
    BY OpenFinite
  <2>2. (f.how \in Wraps) \in BOOLEAN
    OBVIOUS
  <2>. QED  BY <1>2, <1>3, <2>1, <2>2, CountOne
<1>5. StatementsIn(d, t, "begin") = StatementsIn(d, s, c)
  BY <1>1 DEF StatementsIn
<1>. QED  BY <1>4, <1>5, OpenFinite DEF OpenIn

\* A script is left: to the statement below, or to the host.
LEMMA OpenPop ==
    ASSUME NEW d, NEW s \in Seq(Frame), s # <<>>
    PROVE  OpenIn(d, s, "return") =
              OpenIn(d, Front(s), "done") + (IF s[Len(s)].how \in Wraps THEN 1 ELSE 0)
<1>. DEFINE n == Len(s)
            t == Front(s)
<1>1. n \in Nat /\ n > 0 /\ DOMAIN s = 1..n
  BY LenProperties, EmptySeq
<1>2. /\ t \in Seq(Frame) /\ Len(t) = n - 1 /\ DOMAIN t = 1..(n - 1)
      /\ \A i \in 1..(n - 1) : t[i] = s[i]
  BY FrontOfStack DEF Front
<1>3. WrappedIn(s) = IF s[n].how \in Wraps THEN WrappedIn(t) \cup {n} ELSE WrappedIn(t)
  BY <1>1, <1>2 DEF WrappedIn
<1>4. n \notin WrappedIn(t)
  BY <1>1, <1>2 DEF WrappedIn
<1>5. Cardinality(WrappedIn(s)) =
         Cardinality(WrappedIn(t)) + (IF s[n].how \in Wraps THEN 1 ELSE 0)
  BY <1>2, <1>3, <1>4, OpenFinite, CountOne
<1>6. StatementsIn(d, s, "return") = StatementsIn(d, t, "done")
  BY <1>1, <1>2 DEF StatementsIn
<1>. QED  BY <1>2, <1>5, <1>6, OpenFinite DEF OpenIn

\* Between statements no statement of the script on top is open; during one,
\* it is when the script is a do-block.
LEMMA OpenStatement ==
    ASSUME NEW d, NEW s \in Seq(Frame), s # <<>>
    PROVE  /\ OpenIn(d, s, "done") = OpenIn(d, s, "exec")
           /\ OpenIn(d, s, "return") = OpenIn(d, s, "begin")
           /\ OpenIn(d, s, "exec") =
                 OpenIn(d, s, "begin") + (IF d[s[Len(s)].path].kind = "do" THEN 1 ELSE 0)
<1>. DEFINE n == Len(s)
            block == d[s[n].path].kind = "do"
<1>1. n \in Nat /\ n > 0 /\ DOMAIN s = 1..n
  BY LenProperties, EmptySeq
<1>2. /\ StatementsIn(d, s, "done") = StatementsIn(d, s, "exec")
      /\ StatementsIn(d, s, "return") = StatementsIn(d, s, "begin")
  BY DEF StatementsIn
<1>3. StatementsIn(d, s, "exec") =
         IF block THEN StatementsIn(d, s, "begin") \cup {n} ELSE StatementsIn(d, s, "begin")
  BY <1>1 DEF StatementsIn
<1>4. n \notin StatementsIn(d, s, "begin")
  BY <1>1 DEF StatementsIn
<1>5. Cardinality(StatementsIn(d, s, "exec")) =
         Cardinality(StatementsIn(d, s, "begin")) + (IF block THEN 1 ELSE 0)
  <2>1. /\ IsFiniteSet(StatementsIn(d, s, "begin"))
        /\ Cardinality(StatementsIn(d, s, "begin")) \in Nat
    BY OpenFinite
  <2>2. \A more \in BOOLEAN :
           Cardinality(IF more THEN StatementsIn(d, s, "begin") \cup {n}
                               ELSE StatementsIn(d, s, "begin"))
              = Cardinality(StatementsIn(d, s, "begin")) + (IF more THEN 1 ELSE 0)
    BY <1>4, <2>1, CountOne
  <2>3. block \in BOOLEAN
    OBVIOUS
  <2>. QED  BY <1>3, <2>2, <2>3
<1>. QED  BY <1>2, <1>5, OpenFinite DEF OpenIn

\* Going on to the next statement changes neither.
LEMMA OpenNext ==
    ASSUME NEW d, NEW c, NEW s \in Seq(Frame), NEW t \in Seq(Frame), Len(t) = Len(s),
           \A i \in 1..Len(s) : t[i].path = s[i].path /\ t[i].how = s[i].how
    PROVE  OpenIn(d, t, c) = OpenIn(d, s, c)
<1>1. DOMAIN s = 1..Len(s) /\ DOMAIN t = 1..Len(s)
  BY LenProperties
<1>2. WrappedIn(t) = WrappedIn(s)
  BY <1>1 DEF WrappedIn
<1>3. StatementsIn(d, t, c) = StatementsIn(d, s, c)
  BY <1>1 DEF StatementsIn
<1>. QED  BY <1>2, <1>3 DEF OpenIn

-----------------------------------------------------------------------------
(* HostInv in two parts: values, and the machine that runs the scripts.     *)

Values ==
    /\ depth \in Nat /\ strict \in BOOLEAN /\ init \in Path \cup {""}
    /\ loaded \subseteq Path /\ env \subseteq Name /\ val \in Outcomes

Readable(d, p) == p \in Path /\ d[p].kind \in {"do", "expr"}

FrameFits(d, f, i) ==
    /\ f \in Frame
    /\ Readable(d, f.path)
    /\ f.pc \in DOMAIN d[f.path].body
    /\ f.how \in Hosted <=> i = 1

StackFits(d, s) ==
    /\ s \in Seq(Frame)
    /\ Len(s) <= MaxDepth
    /\ \A i \in 1..Len(s) : FrameFits(d, s[i], i)

Idle == {"options", "files", "init", "program"}
Busy == {"begin", "exec", "done", "return"}
AtFile(d, c) == c.files # <<>> /\ Readable(d, Head(c.files))

Machine(d, cm, s, c) ==
    /\ StackFits(d, s)
    /\ c \in Idle \cup Busy \cup {"exit"}
    /\ c \in Idle => s = <<>>
    /\ c \in Busy => s # <<>>
    /\ c \in {"init", "program"} => AtFile(d, cm)
    /\ s # <<>> /\ s[1].how \in {"init", "program", "entry"} => AtFile(d, cm)
    /\ s # <<>> /\ s[1].how = "eval" => cm.options # <<>>

Paired(d, s, c, b, n) == c # "exit" => n = IF b THEN OpenIn(d, s, c) ELSE 0

\* The two parts, in a state and in the next.
LEMMA Parts ==
    ASSUME HostInv
    PROVE  /\ disk \in Disks /\ cmd \in CommandLine
           /\ Values
           /\ Machine(disk, cmd, stack, ctl)
           /\ Paired(disk, stack, ctl, strict, depth)
<1>1. disk \in Disks /\ cmd \in CommandLine /\ TypeOK /\ Nested /\ DepthPairs
  BY DEF HostInv
<1>2. Values
  BY <1>1 DEF TypeOK, Values
<1>3. Paired(disk, stack, ctl, strict, depth)
  BY <1>1, PairsAreOpen DEF Paired
<1>4. stack \in Seq(Frame) /\ DOMAIN stack = 1..Len(stack) /\ Len(stack) <= MaxDepth
  BY <1>1, LenProperties DEF TypeOK
<1>5. ASSUME NEW i \in 1..Len(stack)
      PROVE  FrameFits(disk, stack[i], i)
  <2>1. stack[i] \in Frame
    BY <1>4, <1>5, ElementOfSeq
  <2>2. stack[i].path \in Path
    BY <2>1 DEF Frame
  <2>3. Parsed(stack[i].path) /\ stack[i].pc \in DOMAIN disk[stack[i].path].body
    BY <1>1, <1>4 DEF TypeOK
  <2>4. stack[i].how \in Hosted <=> i = 1
    BY <1>1, <1>4 DEF Nested
  <2>. QED  BY <2>1, <2>2, <2>3, <2>4 DEF FrameFits, Readable, Parsed
<1>6. StackFits(disk, stack)
  BY <1>4, <1>5 DEF StackFits
<1>7. cmd.files # <<>> => Head(cmd.files) \in Path
  <2>1. cmd.files \in Seq(Path)
    BY <1>1 DEF CommandLine
  <2>. QED  BY <2>1, HeadTailProperties
<1>8. /\ ctl \in {"init", "program"} => AtFile(disk, cmd)
      /\ stack # <<>> /\ stack[1].how \in {"init", "program", "entry"} => AtFile(disk, cmd)
  BY <1>1, <1>7 DEF Nested, AtFile, Readable, Parsed, Hosted
<1>9. /\ stack # <<>> /\ stack[1].how = "eval" => cmd.options # <<>>
      /\ ctl \in Idle \cup Busy \cup {"exit"}
  BY <1>1 DEF Nested, Idle, Busy
<1>10. /\ ctl \in Idle => stack = <<>>
       /\ ctl \in Busy => stack # <<>>
  BY <1>1 DEF TypeOK, Idle, Busy
<1>. QED  BY <1>1, <1>2, <1>3, <1>6, <1>8, <1>9, <1>10 DEF Machine

\* The two parts make HostInv in the next state.
LEMMA PartsNext ==
    ASSUME disk' \in Disks, cmd' \in CommandLine, Values',
           Machine(disk', cmd', stack', ctl'),
           Paired(disk', stack', ctl', strict', depth')
    PROVE  HostInv'
<1>1. DepthPairs'
  BY PairsAreOpen DEF Paired
<1>2. stack' \in Seq(Frame) /\ DOMAIN stack' = 1..Len(stack') /\ Len(stack') <= MaxDepth
  BY LenProperties DEF Machine, StackFits
<1>3. \A i \in DOMAIN stack' : FrameFits(disk', stack'[i], i)
  BY <1>2 DEF Machine, StackFits
<1>4. TypeOK'
  BY <1>2, <1>3 DEF TypeOK, Values, Machine, FrameFits, Readable, Parsed, Idle, Busy
<1>5. Nested'
  <2>1. \A i \in DOMAIN stack' : stack'[i].how \in Hosted <=> i = 1
    BY <1>3 DEF FrameFits
  <2>2. stack' # <<>> /\ stack'[1].how \in Hosted \ {"eval"}
           => cmd'.files # <<>> /\ disk'[Head(cmd'.files)].kind \in {"do", "expr"}
    BY DEF Machine, AtFile, Readable, Hosted
  <2>3. ctl' \in {"init", "program"}
           => cmd'.files # <<>> /\ disk'[Head(cmd'.files)].kind \in {"do", "expr"}
    BY DEF Machine, AtFile, Readable
  <2>4. /\ stack' # <<>> /\ stack'[1].how = "eval" => cmd'.options # <<>>
        /\ ctl' \in {"options", "files", "init", "program", "exit",
                     "begin", "exec", "done", "return"}
    BY DEF Machine, Idle, Busy
  <2>. QED  BY <2>1, <2>2, <2>3, <2>4 DEF Nested, Parsed
<1>. QED  BY <1>1, <1>4, <1>5 DEF HostInv

-----------------------------------------------------------------------------
(* Disks, command lines and stacks                                          *)

\* What a disk holds.
LEMMA DiskFits ==
    ASSUME NEW d \in Disks
    PROVE  /\ d \in [Path -> Script]
           /\ Readable(d, "main")
           /\ \A p \in Path : Readable(d, p) => 1 \in DOMAIN d[p].body
           /\ \A p \in Path : \A i \in DOMAIN d[p].body : d[p].body[i] \in Statement
<1>1. /\ d \in [Path -> Script] /\ "main" \in Path
      /\ d["main"].kind \in {"do", "expr"}
      /\ \A p \in Path : d[p].kind \in {"do", "expr"} => d[p].body # <<>>
  BY HostAssumption
<1>2. \A p \in Path : d[p].body \in Seq(Statement)
  BY <1>1 DEF Script
<1>3. \A p \in Path : DOMAIN d[p].body = 1..Len(d[p].body) /\ Len(d[p].body) \in Nat
  BY <1>2, LenProperties
<1>4. \A p \in Path : d[p].body # <<>> => Len(d[p].body) \in Nat \ {0}
  BY <1>2, EmptySeq
<1>5. \A p \in Path : Readable(d, p) => 1 \in DOMAIN d[p].body
  BY <1>1, <1>3, <1>4 DEF Readable
<1>6. \A p \in Path : \A i \in DOMAIN d[p].body : d[p].body[i] \in Statement
  BY <1>2, <1>3, ElementOfSeq
<1>. QED  BY <1>1, <1>5, <1>6 DEF Readable

\* What is left of a command line is one.
LEMMA RestFits ==
    ASSUME cmd \in CommandLine
    PROVE  /\ cmd.options # <<>> =>
                 /\ [cmd EXCEPT !.options = Tail(@)] \in CommandLine
                 /\ Head(cmd.options) \in Options
           /\ cmd.files # <<>> =>
                 /\ [cmd EXCEPT !.files = Tail(@)] \in CommandLine
                 /\ Head(cmd.files) \in Path
<1>1. cmd.options \in Seq(Options) /\ cmd.files \in Seq(Path)
  BY DEF CommandLine
<1>2. cmd.options # <<>> => Tail(cmd.options) \in Seq(Options) /\ Head(cmd.options) \in Options
  BY <1>1, HeadTailProperties
<1>3. cmd.files # <<>> => Tail(cmd.files) \in Seq(Path) /\ Head(cmd.files) \in Path
  BY <1>1, HeadTailProperties
<1>. QED  BY <1>2, <1>3 DEF CommandLine

\* A frame for a script that can be read.
LEMMA FrFits ==
    ASSUME NEW d \in Disks, NEW p \in Path, Readable(d, p), NEW how \in Hows, NEW i \in Nat,
           how \in Hosted <=> i = 1
    PROVE  /\ Fr(p, how) \in Frame
           /\ FrameFits(d, Fr(p, how), i)
           /\ Fr(p, how).how = how
<1>1. /\ Fr(p, how) \in Frame
      /\ Fr(p, how).path = p /\ Fr(p, how).pc = 1 /\ Fr(p, how).how = how
  BY DEF Fr, Frame
<1>2. 1 \in DOMAIN d[p].body
  BY DiskFits
<1>. QED  BY <1>1, <1>2 DEF FrameFits

\* One more frame.
LEMMA PushFits ==
    ASSUME NEW d \in Disks, NEW s, StackFits(d, s), NEW p \in Path, Readable(d, p),
           NEW how \in Hows, how \in Hosted <=> s = <<>>, Len(s) < MaxDepth
    PROVE  /\ StackFits(d, Append(s, Fr(p, how)))
           /\ Append(s, Fr(p, how)) # <<>>
           /\ s # <<>> => Append(s, Fr(p, how))[1] = s[1]
<1>. DEFINE t == Append(s, Fr(p, how))
<1>1. s \in Seq(Frame) /\ Len(s) \in Nat
  BY LenProperties DEF StackFits
<1>2. s = <<>> <=> Len(s) + 1 = 1
  BY <1>1, EmptySeq
<1>3. Fr(p, how) \in Frame /\ FrameFits(d, Fr(p, how), Len(s) + 1)
  BY <1>1, <1>2, FrFits
<1>4. /\ t \in Seq(Frame) /\ t # <<>> /\ Len(t) = Len(s) + 1
      /\ \A i \in 1..Len(s) : t[i] = s[i]
      /\ t[Len(s) + 1] = Fr(p, how)
  BY <1>1, <1>3, AppendProperties
<1>5. Len(t) <= MaxDepth
  BY <1>1, <1>4, HostAssumption
<1>6. ASSUME NEW i \in 1..Len(t)
      PROVE  FrameFits(d, t[i], i)
  <2>1. CASE i = Len(s) + 1
    BY <1>3, <1>4, <2>1
  <2>2. CASE i # Len(s) + 1
    <3>1. i \in 1..Len(s)
      BY <1>1, <1>4, <1>6, <2>2
    <3>. QED  BY <1>4, <3>1 DEF StackFits
  <2>. QED  BY <2>1, <2>2
<1>7. s # <<>> => t[1] = s[1]
  <2>1. s # <<>> => 1 \in 1..Len(s)
    BY <1>1, EmptySeq
  <2>. QED  BY <1>4, <2>1
<1>. QED  BY <1>4, <1>5, <1>6, <1>7 DEF StackFits

\* One frame less: none is left exactly when the host evaluated the top one.
LEMMA PopFits ==
    ASSUME NEW d, NEW s, StackFits(d, s), s # <<>>
    PROVE  /\ StackFits(d, Front(s))
           /\ s[Len(s)].how \in Hosted <=> Front(s) = <<>>
           /\ Front(s) # <<>> => Front(s)[1] = s[1]
<1>1. s \in Seq(Frame) /\ Len(s) \in Nat \ {0} /\ Len(s) <= MaxDepth /\ MaxDepth \in Nat
  BY EmptySeq, HostAssumption DEF StackFits
<1>2. /\ Front(s) \in Seq(Frame) /\ Len(Front(s)) = Len(s) - 1
      /\ \A i \in 1..(Len(s) - 1) : Front(s)[i] = s[i]
  BY <1>1, FrontOfStack DEF Front
<1>3. Front(s) = <<>> <=> Len(s) = 1
  <2>1. Front(s) = <<>> => Len(Front(s)) = 0
    BY EmptySeq
  <2>2. Front(s) # <<>> => Len(Front(s)) \in Nat \ {0}
    BY <1>2, EmptySeq
  <2>. QED  BY <1>1, <1>2, <2>1, <2>2
<1>4. s[Len(s)].how \in Hosted <=> Len(s) = 1
  <2>1. Len(s) \in 1..Len(s)
    BY <1>1
  <2>. QED  BY <2>1 DEF StackFits, FrameFits
<1>5. \A i \in 1..Len(Front(s)) : FrameFits(d, Front(s)[i], i)
  <2>1. \A i \in 1..Len(Front(s)) : i \in 1..Len(s) /\ i \in 1..(Len(s) - 1)
    BY <1>1, <1>2
  <2>. QED  BY <1>2, <2>1 DEF StackFits
<1>6. Len(Front(s)) <= MaxDepth
  <2>1. \A n \in Nat \ {0} : n <= MaxDepth => n - 1 <= MaxDepth
    BY <1>1
  <2>. QED  BY <1>1, <1>2, <2>1
<1>7. Front(s) # <<>> => 1 \in 1..(Len(s) - 1)
  <2>1. \A n \in Nat \ {0} : n # 1 => 1 \in 1..(n - 1)
    OBVIOUS
  <2>. QED  BY <1>1, <1>3, <2>1
<1>. QED  BY <1>2, <1>3, <1>4, <1>5, <1>6, <1>7 DEF StackFits

\* The frame on top and its statement.
LEMMA TopFits ==
    ASSUME HostInv, stack # <<>>
    PROVE  /\ Len(stack) \in Nat \ {0}
           /\ Top = stack[Len(stack)] /\ Top \in Frame /\ Top.path \in Path
           /\ FrameFits(disk, Top, Len(stack))
           /\ Current \in Statement
<1>1. StackFits(disk, stack) /\ disk \in Disks
  BY Parts DEF Machine
<1>2. Len(stack) \in Nat \ {0}
  BY <1>1, EmptySeq DEF StackFits
<1>3. Len(stack) \in 1..Len(stack)
  BY <1>2
<1>4. Top = stack[Len(stack)] /\ FrameFits(disk, Top, Len(stack))
  BY <1>1, <1>3 DEF Top, StackFits
<1>5. Top \in Frame /\ Top.path \in Path /\ Top.pc \in DOMAIN disk[Top.path].body
  BY <1>4 DEF FrameFits, Readable
<1>6. Current \in Statement
  BY <1>1, <1>5, DiskFits DEF Current
<1>. QED  BY <1>2, <1>4, <1>5, <1>6

-----------------------------------------------------------------------------
(* Steps by what they do to the stack: each keeps HostInv.                  *)

\* Nothing is under evaluation.
LEMMA EmptyFits ==
    ASSUME NEW d
    PROVE  StackFits(d, <<>>)
<1>1. <<>> \in Seq(Frame) /\ Len(<<>>) = 0
  BY EmptySeq
<1>. QED  BY <1>1, HostAssumption DEF StackFits

\* The host goes on, or the process ends before a script.
LEMMA IdleStep ==
    ASSUME HostInv, ctl \in Idle, disk' = disk, stack' = stack, depth' = depth,
           cmd' \in CommandLine, Values', ctl' \in Idle \cup {"exit"},
           ctl' \in {"init", "program"} => AtFile(disk, cmd')
    PROVE  HostInv'
<1>1. stack = <<>>
  BY Parts DEF Machine
<1>2. depth = 0
  BY <1>1, Parts, OpenEmpty DEF Paired, Idle
<1>3. Paired(disk', stack', ctl', strict', depth')
  BY <1>1, <1>2, OpenEmpty DEF Paired
<1>4. Machine(disk', cmd', stack', ctl')
  BY <1>1, EmptyFits DEF Machine, Idle, Busy
<1>. QED  BY <1>3, <1>4, Parts, PartsNext

\* The host runs a script.
LEMMA RunStep ==
    ASSUME HostInv, stack = <<>> \/ (ctl = "return" /\ Front(stack) = <<>> /\ Top.how \notin Wraps),
           ctl # "exit",
           NEW p \in Path, Readable(disk, p), NEW how \in Hosted,
           how = "eval" => cmd.options # <<>>,
           how # "eval" => AtFile(disk, cmd),
           disk' = disk, cmd' = cmd, strict' = strict, Values',
           stack' = <<Fr(p, how)>>, ctl' = "begin",
           depth' = IF strict /\ how \in Wraps THEN depth + 1 ELSE depth
    PROVE  HostInv'
<1>1. disk \in Disks /\ cmd \in CommandLine /\ strict \in BOOLEAN /\ StackFits(disk, stack)
  BY Parts DEF Values, Machine
<1>2. depth = 0
  <2>1. CASE stack = <<>>
    BY <2>1, Parts, OpenEmpty DEF Paired
  <2>2. CASE stack # <<>>
    <3>1. Top = stack[Len(stack)] /\ stack \in Seq(Frame)
      BY <1>1 DEF Top, StackFits
    <3>2. OpenIn(disk, stack, "return") = OpenIn(disk, <<>>, "done") + 0
      BY <2>2, <3>1, OpenPop
    <3>. QED  BY <2>2, <3>2, Parts, OpenEmpty DEF Paired
  <2>. QED  BY <2>1, <2>2
<1>3. how \in Hows
  BY DEF Hosted, Hows
<1>4. <<Fr(p, how)>> = Append(<<>>, Fr(p, how))
  OBVIOUS
<1>5. Len(<<>>) < MaxDepth
  BY EmptySeq, HostAssumption
<1>6. StackFits(disk, stack') /\ stack' # <<>>
  BY <1>1, <1>3, <1>4, <1>5, EmptyFits, PushFits
<1>7. Fr(p, how) \in Frame /\ Fr(p, how).how = how
  BY <1>3 DEF Fr, Frame
<1>8. stack'[1] = Fr(p, how)
  OBVIOUS
<1>9. Machine(disk', cmd', stack', ctl')
  BY <1>6, <1>7, <1>8 DEF Machine, Idle, Busy, Hosted
<1>10. OpenIn(disk, stack', "begin") = IF how \in Wraps THEN 1 ELSE 0
  <2>1. <<>> \in Seq(Frame)
    BY EmptySeq
  <2>2. OpenIn(disk, stack', "begin") =
           OpenIn(disk, <<>>, "exec") + (IF how \in Wraps THEN 1 ELSE 0)
    BY <1>4, <1>7, <2>1, OpenPush
  <2>. QED  BY <2>2, OpenEmpty
<1>11. Paired(disk', stack', ctl', strict', depth')
  BY <1>1, <1>2, <1>10 DEF Paired
<1>. QED  BY <1>1, <1>9, <1>11, PartsNext

\* A script is left.
LEMMA PopStep ==
    ASSUME HostInv, ctl = "return", stack' = Pop, disk' = disk, strict' = strict, Values',
           cmd' \in CommandLine,
           Top.how \in Hosted =>
              /\ ctl' \in {"options", "files", "program"}
              /\ ctl' = "program" => AtFile(disk, cmd'),
           Top.how \notin Hosted => ctl' = "done" /\ cmd' = cmd,
           depth' = IF strict /\ depth > 0 /\ Top.how \in Wraps THEN depth - 1 ELSE depth
    PROVE  HostInv'
<1>1. /\ disk \in Disks /\ strict \in BOOLEAN /\ StackFits(disk, stack) /\ stack # <<>>
      /\ Machine(disk, cmd, stack, ctl)
  BY Parts DEF Values, Machine, Busy
<1>2. Top = stack[Len(stack)] /\ stack \in Seq(Frame) /\ stack' = Front(stack)
  BY <1>1 DEF Top, StackFits, Pop, Front
<1>3. /\ StackFits(disk, stack')
      /\ Top.how \in Hosted <=> stack' = <<>>
      /\ stack' # <<>> => stack'[1] = stack[1]
  BY <1>1, <1>2, PopFits
<1>4. Machine(disk', cmd', stack', ctl')
  <2>1. CASE Top.how \in Hosted
    BY <1>3, <2>1 DEF Machine, Idle, Busy
  <2>2. CASE Top.how \notin Hosted
    BY <1>1, <1>3, <2>2 DEF Machine, Idle, Busy
  <2>. QED  BY <2>1, <2>2
<1>5. OpenIn(disk, stack', ctl') = OpenIn(disk, stack', "done")
  <2>1. CASE Top.how \in Hosted
    BY <1>3, <2>1, OpenEmpty
  <2>2. CASE Top.how \notin Hosted
    BY <2>2
  <2>. QED  BY <2>1, <2>2
<1>6. /\ OpenIn(disk, stack, "return") =
            OpenIn(disk, stack', "done") + (IF Top.how \in Wraps THEN 1 ELSE 0)
      /\ OpenIn(disk, stack', "done") \in Nat
  <2>1. stack' \in Seq(Frame)
    BY <1>3 DEF StackFits
  <2>. QED  BY <1>1, <1>2, <2>1, OpenPop, OpenFinite
<1>7. depth = IF strict THEN OpenIn(disk, stack, "return") ELSE 0
  BY Parts DEF Paired
<1>8. depth' = IF strict THEN OpenIn(disk, stack', "done") ELSE 0
  BY <1>1, <1>6, <1>7
<1>9. Paired(disk', stack', ctl', strict', depth')
  BY <1>5, <1>8 DEF Paired
<1>. QED  BY <1>1, <1>4, <1>9, PartsNext

\* A statement is done in one step.
LEMMA StayStep ==
    ASSUME HostInv, ctl = "exec", ctl' = "done", UNCHANGED <<disk, cmd, strict, stack, depth>>,
           Values'
    PROVE  HostInv'
<1>1. /\ disk \in Disks /\ cmd \in CommandLine /\ stack # <<>> /\ stack \in Seq(Frame)
      /\ Machine(disk, cmd, stack, ctl)
  BY Parts DEF Machine, StackFits, Busy
<1>2. Machine(disk', cmd', stack', ctl')
  BY <1>1 DEF Machine, Idle, Busy
<1>3. Paired(disk', stack', ctl', strict', depth')
  BY <1>1, Parts, OpenStatement DEF Paired
<1>. QED  BY <1>1, <1>2, <1>3, PartsNext

\* The process ends in the middle of a script.
LEMMA ExitStep ==
    ASSUME HostInv, ctl' = "exit", UNCHANGED <<disk, cmd, strict, stack>>, Values'
    PROVE  HostInv'
<1>1. Machine(disk', cmd', stack', ctl')
  BY Parts DEF Machine, Idle, Busy
<1>2. Paired(disk', stack', ctl', strict', depth')
  BY DEF Paired
<1>. QED  BY <1>1, <1>2, Parts, PartsNext

\* A statement loads a file.
LEMMA EnterStep ==
    ASSUME HostInv, ctl = "exec", NEW p \in Path, Readable(disk, p), NEW how \in Loading,
           Enter(p, how), UNCHANGED <<cmd, strict>>, Values',
           depth' = IF strict /\ how \in Wraps THEN depth + 1 ELSE depth
    PROVE  HostInv'
<1>1. /\ disk \in Disks /\ cmd \in CommandLine /\ strict \in BOOLEAN
      /\ stack # <<>> /\ StackFits(disk, stack) /\ stack \in Seq(Frame)
      /\ Machine(disk, cmd, stack, ctl)
  BY Parts DEF Values, Machine, StackFits, Busy
<1>2. CASE Len(stack) = MaxDepth /\ Go("exit")
  BY <1>2, ExitStep DEF Go
<1>3. CASE /\ Len(stack) < MaxDepth
           /\ stack' = Append(stack, Fr(p, how))
           /\ ctl' = "begin"
           /\ UNCHANGED <<disk, val>>
  <2>1. how \in Hows /\ how \notin Hosted
    BY DEF Loading, Hows, Hosted
  <2>2. /\ StackFits(disk, stack') /\ stack' # <<>>
        /\ stack'[1] = stack[1]
    BY <1>1, <1>3, <2>1, PushFits
  <2>3. Machine(disk', cmd', stack', ctl')
    BY <1>1, <1>3, <2>2 DEF Machine, Idle, Busy
  <2>4. Fr(p, how) \in Frame /\ Fr(p, how).how = how
    BY <2>1 DEF Fr, Frame
  <2>5. /\ OpenIn(disk, stack', "begin") =
              OpenIn(disk, stack, "exec") + (IF how \in Wraps THEN 1 ELSE 0)
        /\ OpenIn(disk, stack, "exec") \in Nat
    BY <1>1, <1>3, <2>4, OpenPush, OpenFinite
  <2>6. depth = IF strict THEN OpenIn(disk, stack, "exec") ELSE 0
    BY Parts DEF Paired
  <2>7. Paired(disk', stack', ctl', strict', depth')
    BY <1>1, <1>3, <2>5, <2>6 DEF Paired
  <2>. QED  BY <1>1, <1>3, <2>3, <2>7, PartsNext
<1>. QED  BY <1>2, <1>3 DEF Enter

-----------------------------------------------------------------------------
(* Every action keeps HostInv.                                              *)

\* Beginning and ending effects keeps the depth a natural number.
LEMMA EffectsFit ==
    ASSUME HostInv
    PROVE  /\ EffectsBegin => depth' \in Nat /\ depth' = IF strict THEN depth + 1 ELSE depth
           /\ EffectsEnd =>
                 depth' \in Nat /\ depth' = IF strict /\ depth > 0 THEN depth - 1 ELSE depth
           /\ depth \in Nat
<1>1. depth \in Nat /\ strict \in BOOLEAN
  BY Parts DEF Values
<1>2. EffectsBegin => depth' = IF strict THEN depth + 1 ELSE depth
  BY DEF EffectsBegin
<1>3. EffectsEnd => depth' = IF strict /\ depth > 0 THEN depth - 1 ELSE depth
  BY DEF EffectsEnd
<1>4. /\ depth + 1 \in Nat
      /\ depth > 0 => depth - 1 \in Nat
  BY <1>1
<1>. QED  BY <1>1, <1>2, <1>3, <1>4

\* main(): options.
LEMMA OptionsFit ==
    ASSUME HostInv, StrictOption \/ InitOption \/ EvalOption \/ OptionsEnd
    PROVE  HostInv'
<1>1. /\ ctl = "options" => stack = <<>> /\ ctl \in Idle
      /\ cmd \in CommandLine /\ Values
  BY Parts DEF Machine, Idle
<1>2. cmd.options # <<>> =>
         [cmd EXCEPT !.options = Tail(@)] \in CommandLine /\ Head(cmd.options) \in Options
  BY <1>1, RestFits
<1>3. CASE StrictOption
  <2>1. Values'
    BY <1>1, <1>3 DEF StrictOption, world, Go, Values
  <2>. QED
    BY <1>1, <1>2, <1>3, <2>1, IdleStep DEF StrictOption, Option, NextOption, Go, Idle
<1>4. CASE InitOption
  <2>1. Head(cmd.options).path \in Path \cup {""}
    BY <1>2, <1>4 DEF InitOption, Option, Options
  <2>2. Values'
    BY <1>1, <1>4, <2>1 DEF InitOption, world, Go, Values
  <2>. QED
    BY <1>1, <1>2, <1>4, <2>2, IdleStep DEF InitOption, Option, NextOption, Go, Idle
<1>5. CASE EvalOption
  <2>. DEFINE p == Head(cmd.options).path
  <2>1. /\ ctl = "options" /\ cmd.options # <<>> /\ Head(cmd.options).opt = "-e"
        /\ UNCHANGED <<depth, loaded, out, strict, init>>
    BY <1>5 DEF EvalOption, Option
  <2>2. p \in Path
    BY <1>2, <2>1 DEF Options
  <2>3. CASE ~Parsed(p) /\ NextOption /\ Go("options") /\ UNCHANGED env
    <3>1. Values'
      BY <1>1, <2>1, <2>3 DEF Go, Values
    <3>. QED  BY <1>1, <1>2, <2>1, <2>3, <3>1, IdleStep DEF NextOption, Go, Idle
  <2>4. CASE Parsed(p) /\ Rejected(p) /\ Go("exit") /\ UNCHANGED <<cmd, env>>
    <3>1. Values'
      BY <1>1, <2>1, <2>4 DEF Go, Values
    <3>. QED  BY <1>1, <2>1, <2>4, <3>1, IdleStep DEF Go, Idle
  <2>5. CASE Parsed(p) /\ ~Rejected(p) /\ env' = {} /\ Run(p, "eval") /\ UNCHANGED cmd
    <3>1. Values'
      BY <1>1, <2>1, <2>5 DEF Run, Values
    <3>2. Readable(disk, p)
      BY <2>2, <2>5 DEF Readable, Parsed
    <3>. QED
      BY <1>1, <2>1, <2>2, <2>5, <3>1, <3>2, RunStep DEF Run, Wraps, Hosted
  <2>. QED  BY <1>5, <2>3, <2>4, <2>5 DEF EvalOption
<1>6. CASE OptionsEnd
  <2>1. Values'
    BY <1>1, <1>6 DEF OptionsEnd, world, host, Go, Values
  <2>. QED  BY <1>1, <1>6, <2>1, IdleStep DEF OptionsEnd, host, Go, Idle
<1>. QED  BY <1>3, <1>4, <1>5, <1>6

\* main(): files, init script, program.
LEMMA FilesFit ==
    ASSUME HostInv, File \/ FilesEnd \/ InitScript \/ Program
    PROVE  HostInv'
<1>1. /\ ctl \in Idle => stack = <<>>
      /\ ctl \in {"init", "program"} => AtFile(disk, cmd)
      /\ cmd \in CommandLine /\ Values
  BY Parts DEF Machine
<1>2. cmd.files # <<>> =>
         [cmd EXCEPT !.files = Tail(@)] \in CommandLine /\ Head(cmd.files) \in Path
  BY <1>1, RestFits
<1>3. CASE File
  <2>. DEFINE p == Head(cmd.files)
  <2>1. /\ ctl = "files" /\ ctl \in Idle /\ cmd.files # <<>> /\ p \in Path
        /\ UNCHANGED <<depth, loaded, out, strict, init>>
    BY <1>2, <1>3 DEF File, Idle
  <2>2. CASE disk[p].kind = "missing" /\ Go("exit") /\ UNCHANGED <<cmd, env>>
    <3>1. Values'
      BY <1>1, <2>1, <2>2 DEF Go, Values
    <3>. QED  BY <1>1, <2>1, <2>2, <3>1, IdleStep DEF Go, Idle
  <2>3. CASE disk[p].kind = "broken" /\ NextFile /\ Go("files") /\ UNCHANGED env
    <3>1. Values'
      BY <1>1, <2>1, <2>3 DEF Go, Values
    <3>. QED  BY <1>1, <1>2, <2>1, <2>3, <3>1, IdleStep DEF NextFile, Go, Idle
  <2>4. CASE Parsed(p) /\ Rejected(p) /\ Go("exit") /\ UNCHANGED <<cmd, env>>
    <3>1. Values'
      BY <1>1, <2>1, <2>4 DEF Go, Values
    <3>. QED  BY <1>1, <2>1, <2>4, <3>1, IdleStep DEF Go, Idle
  <2>5. CASE Parsed(p) /\ ~Rejected(p) /\ env' = {} /\ Go("init") /\ UNCHANGED cmd
    <3>1. Values'
      BY <1>1, <2>1, <2>5 DEF Go, Values
    <3>2. AtFile(disk, cmd)
      BY <2>1, <2>5 DEF AtFile, Readable, Parsed
    <3>. QED  BY <1>1, <2>1, <2>5, <3>1, <3>2, IdleStep DEF Go, Idle
  <2>. QED  BY <1>3, <2>2, <2>3, <2>4, <2>5 DEF File
<1>4. CASE FilesEnd
  <2>1. Values'
    BY <1>1, <1>4 DEF FilesEnd, world, host, Go, Values
  <2>. QED  BY <1>1, <1>4, <2>1, IdleStep DEF FilesEnd, host, Go, Idle
<1>5. CASE InitScript
  <2>1. /\ ctl = "init" /\ ctl \in Idle /\ AtFile(disk, cmd)
        /\ UNCHANGED <<host, world>>
    BY <1>1, <1>5 DEF InitScript, Idle
  <2>2. CASE UNCHANGED depth /\ (Go("program") \/ Go("exit"))
    <3>1. Values'
      BY <1>1, <2>1, <2>2 DEF Go, Values, host, world
    <3>2. ctl' \in Idle \cup {"exit"} /\ disk' = disk /\ stack' = stack
      BY <2>2 DEF Go, Idle
    <3>. QED  BY <1>1, <2>1, <2>2, <3>1, <3>2, IdleStep DEF host
  <2>3. CASE init # "" /\ Parsed(init) /\ EffectsBegin /\ Run(init, "init")
    <3>1. depth' \in Nat /\ depth' = IF strict THEN depth + 1 ELSE depth
      BY <2>3, EffectsFit
    <3>2. Values'
      BY <1>1, <2>1, <2>3, <3>1 DEF Run, Values, host, world
    <3>3. init \in Path /\ Readable(disk, init)
      BY <1>1, <2>3 DEF Values, Readable, Parsed
    <3>. QED
      BY <1>1, <2>1, <2>3, <3>1, <3>2, <3>3, RunStep DEF Run, Wraps, Hosted, host
  <2>. QED  BY <1>5, <2>2, <2>3 DEF InitScript
<1>6. CASE Program
  <2>1. ctl = "program" /\ ctl \in Idle /\ UNCHANGED <<host, world, depth>>
    BY <1>6 DEF Program, Idle
  <2>2. Values'
    BY <1>1, <1>6, <2>1 DEF Program, Run, Values, host, world
  <2>3. AtFile(disk, cmd) /\ Readable(disk, Head(cmd.files)) /\ Head(cmd.files) \in Path
    BY <1>1, <2>1 DEF AtFile, Readable
  <2>. QED
    BY <1>1, <1>6, <2>1, <2>2, <2>3, RunStep DEF Program, Run, Wraps, Hosted, host
<1>. QED  BY <1>3, <1>4, <1>5, <1>6

\* A script returns to the host, to require or to include.
LEMMA ReturnsFit ==
    ASSUME HostInv,
           EvalReturn \/ InitReturn \/ ProgramReturn \/ EntryReturn
              \/ RequireReturn \/ IncludeReturn
    PROVE  HostInv'
<1>1. /\ ctl = "return" => stack # <<>>
      /\ cmd \in CommandLine /\ disk \in Disks /\ Values /\ StackFits(disk, stack)
      /\ Machine(disk, cmd, stack, ctl)
  BY Parts DEF Machine, Busy
<1>2. /\ cmd.options # <<>> => [cmd EXCEPT !.options = Tail(@)] \in CommandLine
      /\ cmd.files # <<>> => [cmd EXCEPT !.files = Tail(@)] \in CommandLine
  BY <1>1, RestFits
\* The outermost script is on top, and the host is where it was.
<1>3. ASSUME ctl = "return", Top.how \in Hosted
      PROVE  /\ Front(stack) = <<>>
             /\ Top.how = "eval" => cmd.options # <<>>
             /\ Top.how \in {"init", "program", "entry"} => AtFile(disk, cmd)
  <2>1. Top = stack[Len(stack)] /\ FrameFits(disk, Top, Len(stack)) /\ stack # <<>>
    BY <1>1, <1>3, TopFits
  <2>2. Len(stack) = 1
    BY <1>3, <2>1 DEF FrameFits
  <2>. QED  BY <1>1, <1>3, <2>1, <2>2, PopFits DEF Machine
<1>4. CASE EvalReturn
  <2>1. /\ ctl = "return" /\ Top.how = "eval"
        /\ NextOption /\ Leave("options") /\ UNCHANGED <<env, loaded, depth, strict, init>>
    BY <1>4 DEF EvalReturn, Returned
  <2>2. Values'
    BY <1>1, <2>1 DEF Values, Leave
  <2>3. cmd' \in CommandLine
    BY <1>2, <1>3, <2>1 DEF NextOption, Hosted
  <2>. QED  BY <2>1, <2>2, <2>3, PopStep DEF Leave, Hosted, Wraps
<1>5. CASE InitReturn
  <2>1. /\ ctl = "return" /\ Top.how = "init"
        /\ EffectsEnd /\ Leave("program") /\ UNCHANGED <<host, world>>
    BY <1>5 DEF InitReturn, Returned
  <2>2. depth' \in Nat /\ depth' = IF strict /\ depth > 0 THEN depth - 1 ELSE depth
    BY <2>1, EffectsFit
  <2>3. Values'
    BY <1>1, <2>1, <2>2 DEF Values, Leave, host, world
  <2>. QED  BY <1>1, <1>3, <2>1, <2>2, <2>3, PopStep DEF Leave, Hosted, Wraps, host
<1>6. CASE ProgramReturn
  <2>1. ctl = "return" /\ Top.how = "program" /\ UNCHANGED <<env, loaded, strict, init>>
    BY <1>6 DEF ProgramReturn, Returned
  <2>2. Front(stack) = <<>> /\ AtFile(disk, cmd)
    BY <1>3, <2>1 DEF Hosted
  <2>3. CASE EffectsBegin /\ Run("main", "entry") /\ UNCHANGED <<cmd, out>>
    <3>1. depth' \in Nat /\ depth' = IF strict THEN depth + 1 ELSE depth
      BY <2>3, EffectsFit
    <3>2. Values'
      BY <1>1, <2>1, <2>3, <3>1 DEF Values, Run
    <3>3. Readable(disk, "main") /\ "main" \in Path
      BY <1>1, DiskFits DEF Readable
    <3>. QED
      BY <2>1, <2>2, <2>3, <3>1, <3>2, <3>3, RunStep DEF Run, Wraps, Hosted
  <2>4. CASE Report /\ NextFile /\ Leave("files") /\ UNCHANGED depth
    <3>1. Values'
      BY <1>1, <2>1, <2>4 DEF Values, Leave
    <3>2. cmd' \in CommandLine
      BY <1>2, <2>2, <2>4 DEF NextFile, AtFile
    <3>. QED  BY <2>1, <2>4, <3>1, <3>2, PopStep DEF Leave, Hosted, Wraps
  <2>. QED  BY <1>6, <2>3, <2>4 DEF ProgramReturn
<1>7. CASE EntryReturn
  <2>1. /\ ctl = "return" /\ Top.how = "entry" /\ EffectsEnd /\ NextFile
        /\ Leave("files") /\ UNCHANGED <<world, strict, init>>
    BY <1>7 DEF EntryReturn, Returned
  <2>2. depth' \in Nat /\ depth' = IF strict /\ depth > 0 THEN depth - 1 ELSE depth
    BY <2>1, EffectsFit
  <2>3. Values'
    BY <1>1, <2>1, <2>2 DEF Values, Leave, world
  <2>4. cmd' \in CommandLine
    BY <1>2, <1>3, <2>1 DEF NextFile, AtFile, Hosted
  <2>. QED  BY <2>1, <2>2, <2>3, <2>4, PopStep DEF Leave, Hosted, Wraps
<1>8. CASE RequireReturn
  <2>1. /\ ctl = "return" /\ Top.how \in {"require", "requireOpt"} /\ EffectsEnd
        /\ loaded' = loaded \cup {Top.path}
        /\ stack' = Pop /\ ctl' = "done" /\ val' = "value"
        /\ UNCHANGED <<disk, host, env, out>>
    BY <1>8 DEF RequireReturn
  <2>2. depth' \in Nat /\ depth' = IF strict /\ depth > 0 THEN depth - 1 ELSE depth
    BY <2>1, EffectsFit
  <2>3. Top.path \in Path
    BY <1>1, <2>1, TopFits
  <2>4. Values'
    BY <1>1, <2>1, <2>2, <2>3 DEF Values, Outcomes, host
  <2>5. Top.how \notin Hosted /\ Top.how \in Wraps
    BY <2>1 DEF Hosted, Wraps
  <2>. QED  BY <1>1, <2>1, <2>2, <2>4, <2>5, PopStep DEF host
<1>9. CASE IncludeReturn
  <2>1. /\ ctl = "return" /\ Top.how = "include" /\ stack' = Pop /\ ctl' = "done"
        /\ val' = (IF val = "null" THEN "bottom" ELSE val)
        /\ UNCHANGED <<disk, host, world, depth>>
    BY <1>9 DEF IncludeReturn, Returned
  <2>2. Values'
    BY <1>1, <2>1 DEF Values, Outcomes, host, world
  <2>3. Top.how \notin Hosted /\ Top.how \notin Wraps
    BY <2>1 DEF Hosted, Wraps
  <2>. QED  BY <1>1, <2>1, <2>2, <2>3, PopStep DEF host
<1>. QED  BY <1>4, <1>5, <1>6, <1>7, <1>8, <1>9

\* chain and bind around the statements of a script.
LEMMA StatementsFit ==
    ASSUME HostInv, StatementBegin \/ BlockNext \/ BlockEnd \/ ExprEnd
    PROVE  HostInv'
<1>1. /\ cmd \in CommandLine /\ disk \in Disks /\ Values /\ StackFits(disk, stack)
      /\ stack \in Seq(Frame) /\ Machine(disk, cmd, stack, ctl)
      /\ strict \in BOOLEAN
  BY Parts DEF Machine, StackFits, Values
<1>2. ctl \in Busy => stack # <<>>
  BY <1>1 DEF Machine
<1>3. stack # <<>> =>
         /\ Top = stack[Len(stack)] /\ Top \in Frame /\ FrameFits(disk, Top, Len(stack))
         /\ Len(stack) \in Nat \ {0} /\ Len(stack) \in 1..Len(stack)
  <2>1. stack # <<>> => Len(stack) \in 1..Len(stack)
    BY <1>1, EmptySeq
  <2>. QED  BY <2>1, TopFits
<1>4. stack # <<>> =>
         /\ OpenIn(disk, stack, "done") = OpenIn(disk, stack, "exec")
         /\ OpenIn(disk, stack, "return") = OpenIn(disk, stack, "begin")
         /\ OpenIn(disk, stack, "exec") =
               OpenIn(disk, stack, "begin") + (IF InBlock(Top) THEN 1 ELSE 0)
         /\ OpenIn(disk, stack, "begin") \in Nat
  BY <1>1, <1>3, OpenStatement, OpenFinite DEF InBlock
<1>5. ctl # "exit" => depth = IF strict THEN OpenIn(disk, stack, ctl) ELSE 0
  BY Parts DEF Paired
\* Where the stack stays, the machine stays.
<1>6. ASSUME ctl \in Busy, ctl' \in Busy, UNCHANGED <<disk, cmd, stack>>
      PROVE  Machine(disk', cmd', stack', ctl')
  BY <1>1, <1>6 DEF Machine, Idle, Busy
<1>7. CASE StatementBegin
  <2>1. /\ ctl = "begin" /\ ctl' = "exec" /\ UNCHANGED <<disk, stack, val, host, world>>
        /\ depth' = IF strict /\ InBlock(Top) THEN depth + 1 ELSE depth
    BY <1>7 DEF StatementBegin, EffectsBegin, Go
  <2>2. stack # <<>> /\ ctl \in Busy /\ ctl' \in Busy
    BY <1>2, <2>1 DEF Busy
  <2>3. depth' = IF strict THEN OpenIn(disk, stack, "exec") ELSE 0
    BY <1>1, <1>4, <1>5, <2>1, <2>2
  <2>4. depth' \in Nat
    BY <1>4, <2>2, <2>3
  <2>5. Values'
    BY <1>1, <2>1, <2>4 DEF Values, host, world
  <2>6. Paired(disk', stack', ctl', strict', depth')
    BY <2>1, <2>3 DEF Paired, host
  <2>. QED  BY <1>1, <1>6, <2>1, <2>2, <2>5, <2>6, PartsNext DEF host
<1>8. CASE BlockNext
  <2>. DEFINE n == Len(stack)
              g == [Top EXCEPT !.pc = @ + 1]
  <2>1. /\ ctl = "done" /\ InBlock(Top) /\ Top.pc < Len(disk[Top.path].body)
        /\ EffectsEnd /\ ctl' = "begin" /\ UNCHANGED <<disk, host, world, val>>
        /\ stack' = [stack EXCEPT ![Len(stack)].pc = @ + 1]
    BY <1>8 DEF BlockNext
  <2>2. stack # <<>> /\ ctl \in Busy
    BY <1>2, <2>1 DEF Busy
  <2>3. stack' = [stack EXCEPT ![n] = g]
    BY <1>3, <2>1, <2>2
  <2>4. /\ g \in Frame /\ g.path = Top.path /\ g.how = Top.how /\ g.pc = Top.pc + 1
        /\ g.pc \in DOMAIN disk[Top.path].body
    <3>1. Top \in Frame /\ Top.path \in Path /\ Top.pc \in Nat \ {0}
      BY <1>3, <2>2 DEF Frame
    <3>2. disk[Top.path].body \in Seq(Statement)
      BY <1>1, <3>1, HostAssumption DEF Script
    <3>3. /\ DOMAIN disk[Top.path].body = 1..Len(disk[Top.path].body)
          /\ Len(disk[Top.path].body) \in Nat
      BY <3>2, LenProperties
    <3>. QED  BY <2>1, <3>1, <3>3 DEF Frame
  <2>5. /\ stack' \in Seq(Frame) /\ Len(stack') = n
        /\ \A i \in 1..n : stack'[i] = IF i = n THEN g ELSE stack[i]
    BY <1>1, <1>3, <2>2, <2>3, <2>4, ExceptSeq
  <2>6. \A i \in 1..n : stack'[i].path = stack[i].path /\ stack'[i].how = stack[i].how
    BY <1>3, <2>2, <2>4, <2>5
  <2>7. ASSUME NEW i \in 1..n
        PROVE  FrameFits(disk, stack'[i], i)
    <3>1. FrameFits(disk, stack[i], i)
      BY <1>1, <2>7 DEF StackFits
    <3>2. CASE i = n
      BY <1>3, <2>2, <2>4, <2>5, <3>1, <3>2 DEF FrameFits
    <3>3. CASE i # n
      BY <2>5, <3>1, <3>3
    <3>. QED  BY <3>2, <3>3
  <2>8. StackFits(disk, stack') /\ stack' # <<>>
    <3>1. stack' # <<>>
      BY <1>3, <2>2, <2>5, EmptySeq
    <3>. QED  BY <1>1, <2>5, <2>7, <3>1 DEF StackFits
  <2>9. stack'[1].how = stack[1].how
    <3>1. 1 \in 1..n
      BY <1>3, <2>2
    <3>. QED  BY <2>6, <3>1
  <2>10. Machine(disk', cmd', stack', ctl')
    BY <1>1, <2>1, <2>2, <2>8, <2>9 DEF Machine, Idle, Busy, host
  <2>11. OpenIn(disk, stack', "begin") = OpenIn(disk, stack, "begin")
    BY <1>1, <2>5, <2>6, OpenNext
  <2>12. depth' = IF strict THEN OpenIn(disk, stack, "begin") ELSE 0
    <3>1. depth' = IF strict /\ depth > 0 THEN depth - 1 ELSE depth
      BY <2>1, EffectsFit
    <3>. QED  BY <1>1, <1>4, <1>5, <2>1, <2>2, <3>1
  <2>13. Paired(disk', stack', ctl', strict', depth')
    BY <2>1, <2>11, <2>12 DEF Paired, host
  <2>14. Values'
    <3>1. depth' \in Nat
      BY <2>1, EffectsFit
    <3>. QED  BY <1>1, <2>1, <3>1 DEF Values, host, world
  <2>. QED  BY <1>1, <2>1, <2>10, <2>13, <2>14, PartsNext DEF host
<1>9. CASE BlockEnd
  <2>1. /\ ctl = "done" /\ InBlock(Top) /\ EffectsEnd
        /\ val' = (IF val = "value" THEN "value" ELSE "bottom")
        /\ ctl' = "return" /\ UNCHANGED <<disk, host, world, stack>>
    BY <1>9 DEF BlockEnd
  <2>2. stack # <<>> /\ ctl \in Busy /\ ctl' \in Busy
    BY <1>2, <2>1 DEF Busy
  <2>3. depth' \in Nat /\ depth' = IF strict /\ depth > 0 THEN depth - 1 ELSE depth
    BY <2>1, EffectsFit
  <2>4. depth' = IF strict THEN OpenIn(disk, stack, "return") ELSE 0
    BY <1>1, <1>4, <1>5, <2>1, <2>2, <2>3
  <2>5. Paired(disk', stack', ctl', strict', depth')
    BY <2>1, <2>4 DEF Paired, host
  <2>6. Values'
    BY <1>1, <2>1, <2>3 DEF Values, Outcomes, host, world
  <2>. QED  BY <1>1, <1>6, <2>1, <2>2, <2>5, <2>6, PartsNext DEF host
<1>10. CASE ExprEnd
  <2>1. /\ ctl = "done" /\ ~InBlock(Top) /\ ctl' = "return"
        /\ UNCHANGED <<disk, stack, val, host, world, depth>>
    BY <1>10 DEF ExprEnd, Go
  <2>2. stack # <<>> /\ ctl \in Busy /\ ctl' \in Busy
    BY <1>2, <2>1 DEF Busy
  <2>3. depth = IF strict THEN OpenIn(disk, stack, "return") ELSE 0
    BY <1>1, <1>4, <1>5, <2>1, <2>2
  <2>4. Paired(disk', stack', ctl', strict', depth')
    BY <2>1, <2>3 DEF Paired, host
  <2>5. Values'
    BY <1>1, <2>1 DEF Values, host, world
  <2>. QED  BY <1>1, <1>6, <2>1, <2>2, <2>4, <2>5, PartsNext DEF host
<1>. QED  BY <1>7, <1>8, <1>9, <1>10

\* What a statement comes down to.
LEMMA OperationsFit ==
    ASSUME HostInv,
           Refuse \/ Evaluate \/ Use \/ PrintStatement \/ Import \/ Exit
              \/ RequireCached \/ RequireNotFound \/ Require \/ Include
    PROVE  HostInv'
<1>1. Values /\ (ctl = "exec" => Current \in Statement)
  <2>1. Machine(disk, cmd, stack, ctl) /\ Values
    BY Parts
  <2>. QED  BY <2>1, TopFits DEF Machine, Busy
<1>2. CASE Refuse
  <2>1. Values'
    BY <1>1, <1>2 DEF Refuse, Result, Values, Outcomes, host, world
  <2>. QED  BY <1>2, <2>1, StayStep DEF Refuse, Result, host
<1>3. CASE Evaluate
  <2>1. Values'
    BY <1>1, <1>3 DEF Evaluate, Result, Values, host, world
  <2>. QED  BY <1>3, <2>1, StayStep DEF Evaluate, Result, host
<1>4. CASE Use
  <2>1. Values'
    BY <1>1, <1>4 DEF Use, Exec, Result, Values, Outcomes, host, world
  <2>. QED  BY <1>4, <2>1, StayStep DEF Use, Exec, Result, host
<1>5. CASE PrintStatement
  <2>1. Values'
    BY <1>1, <1>5 DEF PrintStatement, Result, Values, Outcomes, host
  <2>. QED  BY <1>5, <2>1, StayStep DEF PrintStatement, Permitted, Exec, Result, host
<1>6. CASE Import
  <2>1. Current.names \subseteq Name
    BY <1>1, <1>6 DEF Import, Permitted, Exec, Statement
  <2>2. Values'
    BY <1>1, <1>6, <2>1 DEF Import, Result, Values, Outcomes, host
  <2>. QED  BY <1>6, <2>2, StayStep DEF Import, Permitted, Exec, Result, host
<1>7. CASE Exit
  <2>1. Values'
    BY <1>1, <1>7 DEF Exit, Go, Values, host, world
  <2>. QED  BY <1>7, <2>1, ExitStep DEF Exit, Go, host
<1>8. CASE RequireCached
  <2>1. Values'
    BY <1>1, <1>8 DEF RequireCached, Result, Values, Outcomes, host, world
  <2>. QED  BY <1>8, <2>1, StayStep DEF RequireCached, Permitted, Exec, Result, host
<1>9. CASE RequireNotFound
  <2>1. Values'
    BY <1>1, <1>9 DEF RequireNotFound, Result, Values, Outcomes, host, world
  <2>. QED  BY <1>9, <2>1, StayStep DEF RequireNotFound, Permitted, Exec, Result, host
<1>10. CASE Require
  <2>1. /\ ctl = "exec" /\ Current.op \in {"require", "requireOpt"}
        /\ Parsed(Current.path) /\ EffectsBegin
        /\ Enter(Current.path, Current.op) /\ UNCHANGED <<host, world>>
    BY <1>10 DEF Require, Permitted, Exec
  <2>2. Current.path \in Path /\ Readable(disk, Current.path)
    BY <1>1, <2>1 DEF Statement, Loading, Readable, Parsed
  <2>3. Current.op \in Loading /\ Current.op \in Wraps
    BY <2>1 DEF Loading, Wraps
  <2>4. depth' \in Nat /\ depth' = IF strict THEN depth + 1 ELSE depth
    BY <2>1, EffectsFit
  <2>5. val' = val
    BY <2>1 DEF Enter, Go
  <2>6. Values'
    BY <1>1, <2>1, <2>4, <2>5 DEF Values, host, world
  <2>. QED  BY <2>1, <2>2, <2>3, <2>4, <2>6, EnterStep DEF host
<1>11. CASE Include
  <2>1. ctl = "exec" /\ Current.op = "include" /\ UNCHANGED <<host, world, depth>>
    BY <1>11 DEF Include, Exec
  <2>2. CASE Result("bottom")
    <3>1. Values'
      BY <1>1, <2>1, <2>2 DEF Result, Values, Outcomes, host, world
    <3>. QED  BY <2>1, <2>2, <3>1, StayStep DEF Result, host
  <2>3. CASE Parsed(Current.path) /\ Enter(Current.path, "include")
    <3>1. Current.path \in Path /\ Readable(disk, Current.path)
      BY <1>1, <2>1, <2>3 DEF Statement, Loading, Readable, Parsed
    <3>2. "include" \in Loading /\ "include" \notin Wraps
      BY DEF Loading, Wraps
    <3>3. val' = val
      BY <2>3 DEF Enter, Go
    <3>4. Values'
      BY <1>1, <2>1, <3>3 DEF Values, host, world
    <3>. QED  BY <2>1, <2>3, <3>1, <3>2, <3>4, EnterStep DEF host
  <2>. QED  BY <1>11, <2>2, <2>3 DEF Include
<1>. QED  BY <1>2, <1>3, <1>4, <1>5, <1>6, <1>7, <1>8, <1>9, <1>10, <1>11

-----------------------------------------------------------------------------
(* The invariant and what it implies                                        *)

\* A process that has read nothing yet.
LEMMA InitFits ==
    ASSUME Init
    PROVE  HostInv
<1>1. /\ disk \in Disks /\ cmd \in CommandLine /\ stack = <<>> /\ ctl = "options"
      /\ depth = 0 /\ strict = FALSE /\ init = "" /\ loaded = {} /\ env = {}
      /\ val = "value"
  BY HostAssumption DEF Init
<1>2. stack \in Seq(Frame) /\ Len(stack) = 0 /\ DOMAIN stack = {} /\ 0 <= MaxDepth
  <2>1. <<>> \in Seq(Frame) /\ Len(<<>>) = 0
    BY EmptySeq
  <2>2. DOMAIN <<>> = {}
    OBVIOUS
  <2>3. 0 <= MaxDepth
    BY HostAssumption
  <2>. QED  BY <1>1, <2>1, <2>2, <2>3
<1>3. TypeOK
  BY <1>1, <1>2 DEF TypeOK, Outcomes
<1>4. Nested
  BY <1>1, <1>2 DEF Nested
<1>5. DepthPairs
  BY <1>1 DEF DepthPairs
<1>. QED  BY <1>1, <1>3, <1>4, <1>5 DEF HostInv

\* Every step keeps the invariant.
LEMMA NextFits ==
    ASSUME HostInv, [Next]_vars
    PROVE  HostInv'
<1>1. CASE UNCHANGED vars
  BY <1>1 DEF vars, HostInv, TypeOK, Nested, DepthPairs, Parsed, Wrapped, InStatement, InBlock
<1>2. CASE Ended
  BY <1>1, <1>2 DEF Ended
<1>3. CASE StrictOption \/ InitOption \/ EvalOption \/ OptionsEnd
  BY <1>3, OptionsFit
<1>4. CASE File \/ FilesEnd \/ InitScript \/ Program
  BY <1>4, FilesFit
<1>5. CASE EvalReturn \/ InitReturn \/ ProgramReturn \/ EntryReturn
              \/ RequireReturn \/ IncludeReturn
  BY <1>5, ReturnsFit
<1>6. CASE StatementBegin \/ BlockNext \/ BlockEnd \/ ExprEnd
  BY <1>6, StatementsFit
<1>7. CASE Refuse \/ Evaluate \/ Use \/ PrintStatement \/ Import \/ Exit
              \/ RequireCached \/ RequireNotFound \/ Require \/ Include
  BY <1>7, OperationsFit
<1>. QED  BY <1>1, <1>2, <1>3, <1>4, <1>5, <1>6, <1>7 DEF Next

\* The inductive invariant: whatever the files contain and however the process
\* is called, frames are entered and left in the order of their nesting, each
\* by the one that evaluates it.
THEOREM HostInvHolds == Spec => []HostInv
<1>1. Init => HostInv
  BY InitFits
<1>2. HostInv /\ [Next]_vars => HostInv'
  BY NextFits
<1>. QED  BY <1>1, <1>2, PTL DEF Spec

\* The state of the process stays of its kind, and a statement that is
\* executed exists.
THEOREM HostTypeCorrect == Spec => []TypeOK
<1>1. HostInv => TypeOK
  BY DEF HostInv
<1>. QED  BY <1>1, HostInvHolds, PTL

\* ls_effects_begin and ls_effects_end pair up on every path through
\* statements, require, init and entry, failed or not.
THEOREM EffectsPair == Spec => []DepthPairs
<1>1. HostInv => DepthPairs
  BY DEF HostInv
<1>. QED  BY <1>1, HostInvHolds, PTL

-----------------------------------------------------------------------------
(* require implements ModuleCache                                           *)

Requires == {"require", "requireOpt"}
RequiringIn(s) == {i \in DOMAIN s : s[i].how \in Requires}
PendingIn(s) == [i \in RequiringIn(s) |-> s[i].path]

\* The evaluations under way do not change unless a require starts or ends.
LEMMA PendingSame ==
    ASSUME NEW s, NEW t, RequiringIn(t) = RequiringIn(s),
           \A i \in RequiringIn(s) : t[i].path = s[i].path
    PROVE  PendingIn(t) = PendingIn(s)
  BY DEF PendingIn

\* Nothing is required by the host's own scripts.
LEMMA PendingEmpty ==
    ASSUME NEW p, NEW how \in Hosted
    PROVE  /\ RequiringIn(<<>>) = {}
           /\ RequiringIn(<<Fr(p, how)>>) = {}
  BY DEF RequiringIn, Requires, Hosted, Fr

\* A script is entered: it is pending when require enters it.
LEMMA PendingPush ==
    ASSUME NEW s \in Seq(Frame), NEW f \in Frame
    PROVE  /\ f.how \notin Requires => PendingIn(Append(s, f)) = PendingIn(s)
           /\ f.how \in Requires =>
                 /\ RequiringIn(Append(s, f)) = RequiringIn(s) \cup {Len(s) + 1}
                 /\ PendingIn(Append(s, f)) =
                       [j \in RequiringIn(s) \cup {Len(s) + 1} |->
                           IF j = Len(s) + 1 THEN f.path ELSE PendingIn(s)[j]]
           /\ \A j \in RequiringIn(s) : j \in 1..Len(s)
<1>. DEFINE n == Len(s)
            t == Append(s, f)
<1>1. /\ n \in Nat /\ DOMAIN s = 1..n /\ Len(t) = n + 1 /\ DOMAIN t = 1..(n + 1)
      /\ \A i \in 1..n : t[i] = s[i]
      /\ t[n + 1] = f
  BY AppendProperties, LenProperties
<1>2. \A j \in RequiringIn(s) : j \in 1..n /\ j # n + 1 /\ t[j] = s[j]
  BY <1>1 DEF RequiringIn
<1>3. f.how \notin Requires => RequiringIn(t) = RequiringIn(s)
  BY <1>1 DEF RequiringIn
<1>4. f.how \in Requires => RequiringIn(t) = RequiringIn(s) \cup {n + 1}
  BY <1>1 DEF RequiringIn
<1>5. f.how \notin Requires => PendingIn(t) = PendingIn(s)
  BY <1>2, <1>3, PendingSame
<1>6. ASSUME f.how \in Requires
      PROVE  PendingIn(t) = [j \in RequiringIn(s) \cup {n + 1} |->
                                IF j = n + 1 THEN f.path ELSE PendingIn(s)[j]]
  <2>1. \A j \in RequiringIn(s) : PendingIn(s)[j] = t[j].path
    BY <1>2 DEF PendingIn
  <2>2. PendingIn(t) = [j \in RequiringIn(s) \cup {n + 1} |-> t[j].path]
    BY <1>4, <1>6 DEF PendingIn
  <2>. QED  BY <1>1, <1>2, <2>1, <2>2
<1>. QED  BY <1>2, <1>4, <1>5, <1>6

\* A script is left: the innermost pending one when require had entered it.
LEMMA PendingPop ==
    ASSUME NEW s \in Seq(Frame), s # <<>>
    PROVE  /\ s[Len(s)].how \notin Requires => PendingIn(Front(s)) = PendingIn(s)
           /\ s[Len(s)].how \in Requires =>
                 /\ Len(s) \in RequiringIn(s)
                 /\ PendingIn(s)[Len(s)] = s[Len(s)].path
                 /\ PendingIn(Front(s)) =
                       [j \in RequiringIn(s) \ {Len(s)} |-> PendingIn(s)[j]]
           /\ \A j \in RequiringIn(s) : j <= Len(s)
<1>. DEFINE n == Len(s)
            t == Front(s)
<1>1. n \in Nat /\ n > 0 /\ DOMAIN s = 1..n
  BY LenProperties, EmptySeq
<1>2. /\ t \in Seq(Frame) /\ Len(t) = n - 1 /\ DOMAIN t = 1..(n - 1)
      /\ \A i \in 1..(n - 1) : t[i] = s[i]
  BY FrontOfStack, LenProperties DEF Front
<1>3. RequiringIn(t) = RequiringIn(s) \ {n}
  BY <1>1, <1>2 DEF RequiringIn
<1>4. \A j \in RequiringIn(t) : t[j] = s[j]
  BY <1>2 DEF RequiringIn
<1>5. s[n].how \notin Requires => n \notin RequiringIn(s)
  BY DEF RequiringIn
<1>6. s[n].how \notin Requires => PendingIn(t) = PendingIn(s)
  BY <1>3, <1>4, <1>5, PendingSame
<1>7. s[n].how \in Requires => n \in RequiringIn(s) /\ PendingIn(s)[n] = s[n].path
  BY <1>1 DEF RequiringIn, PendingIn
<1>8. PendingIn(t) = [j \in RequiringIn(s) \ {n} |-> PendingIn(s)[j]]
  <2>1. \A j \in RequiringIn(s) \ {n} : PendingIn(s)[j] = t[j].path
    BY <1>3, <1>4 DEF PendingIn
  <2>. QED  BY <1>3, <2>1 DEF PendingIn
<1>9. \A j \in RequiringIn(s) : j <= n
  BY <1>1 DEF RequiringIn
<1>. QED  BY <1>6, <1>7, <1>8, <1>9

\* Requiring is RequiringIn.
LEMMA RequiringStack ==
    /\ Requiring = RequiringIn(stack) /\ Requiring' = RequiringIn(stack')
    /\ [i \in Requiring |-> stack[i].path] = PendingIn(stack)
    /\ [i \in Requiring |-> stack[i].path]' = PendingIn(stack')
  BY DEF Requiring, RequiringIn, PendingIn, Requires

Unseen == loaded' = loaded /\ PendingIn(stack') = PendingIn(stack)

\* A file a statement loads is pending only if require loads it.
LEMMA EnterPending ==
    ASSUME HostInv, ctl = "exec", NEW p \in Path, NEW how \in Loading, Enter(p, how)
    PROVE  \/ PendingIn(stack') = PendingIn(stack)
           \/ /\ how \in Requires
              /\ Len(stack) + 1 \in (1..MaxDepth) \ RequiringIn(stack)
              /\ \A j \in RequiringIn(stack) : j <= Len(stack) + 1
              /\ PendingIn(stack') = [j \in RequiringIn(stack) \cup {Len(stack) + 1} |->
                                         IF j = Len(stack) + 1 THEN p ELSE PendingIn(stack)[j]]
<1>1. /\ stack \in Seq(Frame) /\ Len(stack) \in Nat /\ MaxDepth \in Nat
  <2>1. StackFits(disk, stack)
    BY Parts DEF Machine
  <2>. QED  BY <2>1, LenProperties, HostAssumption DEF StackFits
<1>2. CASE Go("exit")
  BY <1>2 DEF Go
<1>3. CASE Len(stack) < MaxDepth /\ stack' = Append(stack, Fr(p, how))
  <2>1. Fr(p, how) \in Frame /\ Fr(p, how).how = how /\ Fr(p, how).path = p
    BY DEF Fr, Frame, Loading, Hows
  <2>2. CASE how \notin Requires
    BY <1>1, <1>3, <2>1, <2>2, PendingPush
  <2>3. CASE how \in Requires
    <3>1. \A j \in RequiringIn(stack) : j \in 1..Len(stack)
      BY <1>1, <2>1, PendingPush
    <3>2. /\ Len(stack) + 1 \in (1..MaxDepth) \ RequiringIn(stack)
          /\ \A j \in RequiringIn(stack) : j <= Len(stack) + 1
      BY <1>1, <1>3, <3>1
    <3>3. PendingIn(stack') = [j \in RequiringIn(stack) \cup {Len(stack) + 1} |->
                                 IF j = Len(stack) + 1 THEN p ELSE PendingIn(stack)[j]]
      <4>. DEFINE f == Fr(p, how)
      <4>1. f \in Frame /\ f.how \in Requires /\ f.path = p
        BY <2>1, <2>3
      <4>. HIDE DEF f
      <4>2. PendingIn(Append(stack, f))
              = [j \in RequiringIn(stack) \cup {Len(stack) + 1} |->
                     IF j = Len(stack) + 1 THEN f.path ELSE PendingIn(stack)[j]]
        BY <1>1, <4>1, PendingPush
      <4>3. stack' = Append(stack, f)
        BY <1>3 DEF f
      <4>. QED  BY <4>1, <4>2, <4>3
    <3>. QED  BY <2>3, <3>2, <3>3
  <2>. QED  BY <2>2, <2>3
<1>. QED  BY <1>2, <1>3 DEF Enter

\* require starts the evaluation of a file that is not loaded, or the process
\* ends for want of stack.
LEMMA RequireStarts ==
    ASSUME HostInv, Require
    PROVE  Unseen \/ Cache!Next
<1>. DEFINE p == Current.path
            n == Len(stack) + 1
<1>1. /\ ctl = "exec" /\ Current.op \in {"require", "requireOpt"} /\ p \notin loaded
      /\ Enter(p, Current.op) /\ loaded' = loaded
  BY DEF Require, Permitted, Exec, world
<1>2. p \in Path /\ Current.op \in Loading
  <2>1. Machine(disk, cmd, stack, ctl)
    BY Parts
  <2>2. Current \in Statement
    BY <1>1, <2>1, TopFits DEF Machine, Busy
  <2>. QED  BY <1>1, <2>2 DEF Statement, Loading
<1>3. CASE PendingIn(stack') = PendingIn(stack)
  BY <1>1, <1>3 DEF Unseen
<1>4. CASE /\ n \in (1..MaxDepth) \ RequiringIn(stack)
           /\ \A j \in RequiringIn(stack) : j <= n
           /\ PendingIn(stack') = [j \in RequiringIn(stack) \cup {n} |->
                                     IF j = n THEN p ELSE PendingIn(stack)[j]]
  <2>1. DOMAIN PendingIn(stack) = RequiringIn(stack)
    BY DEF PendingIn
  <2>2. DOMAIN [i \in Requiring |-> stack[i].path] = RequiringIn(stack)
    BY <2>1, RequiringStack
  <2>3. Cache!Innermost(n)
    BY <1>4, <2>2 DEF Cache!Innermost
  <2>4. [i \in Requiring |-> stack[i].path]'
          = [j \in DOMAIN [i \in Requiring |-> stack[i].path] \cup {n} |->
                 IF j = n THEN p ELSE [i \in Requiring |-> stack[i].path][j]]
    BY <1>4, <2>2, RequiringStack
  <2>5. n \in (1..MaxDepth) \ DOMAIN [i \in Requiring |-> stack[i].path]
    BY <1>4, <2>2
  <2>. QED  BY <1>1, <1>2, <2>3, <2>4, <2>5, Zenon DEF Cache!Next, Cache!Start
<1>. QED  BY <1>1, <1>2, <1>3, <1>4, EnterPending

\* However the evaluation went, it is finished and the file is loaded.
LEMMA RequireFinishes ==
    ASSUME HostInv, RequireReturn
    PROVE  Cache!Next
<1>. DEFINE n == Len(stack)
<1>1. /\ ctl = "return" /\ Top.how \in Requires /\ loaded' = loaded \cup {Top.path}
      /\ stack' = Front(stack)
  BY DEF RequireReturn, Requires, Pop, Front
<1>2. stack # <<>> /\ stack \in Seq(Frame) /\ Top = stack[n]
  <2>1. stack # <<>> /\ StackFits(disk, stack)
    BY <1>1, Parts DEF Machine, Busy
  <2>. QED  BY <2>1 DEF StackFits, Top
<1>3. /\ n \in RequiringIn(stack) /\ PendingIn(stack)[n] = Top.path
      /\ PendingIn(stack') = [j \in RequiringIn(stack) \ {n} |-> PendingIn(stack)[j]]
      /\ \A j \in RequiringIn(stack) : j <= n
  BY <1>1, <1>2, PendingPop
<1>4. DOMAIN PendingIn(stack) = RequiringIn(stack)
  BY DEF PendingIn
<1>5. DOMAIN [i \in Requiring |-> stack[i].path] = RequiringIn(stack)
  BY <1>4, RequiringStack
<1>6. Cache!Innermost(n)
  BY <1>3, <1>5 DEF Cache!Innermost
<1>7. [i \in Requiring |-> stack[i].path]'
        = Cache!Restrict([i \in Requiring |-> stack[i].path],
                         DOMAIN [i \in Requiring |-> stack[i].path] \ {n})
  <2>1. Cache!Restrict(PendingIn(stack), RequiringIn(stack) \ {n})
          = [j \in RequiringIn(stack) \ {n} |-> PendingIn(stack)[j]]
    BY DEF Cache!Restrict
  <2>. QED  BY <1>3, <1>5, <2>1, RequiringStack
<1>8. loaded' = loaded \cup {[i \in Requiring |-> stack[i].path][n]}
  BY <1>1, <1>3, RequiringStack
<1>9. n \in DOMAIN [i \in Requiring |-> stack[i].path]
  BY <1>3, <1>5
<1>10. Cache!Finish
  BY <1>6, <1>7, <1>8, <1>9, Zenon DEF Cache!Finish
<1>. QED  BY <1>10 DEF Cache!Next

\* The host's own scripts and includes are not the cache's business.
LEMMA OthersUnseen ==
    ASSUME HostInv,
           \/ StrictOption \/ InitOption \/ EvalOption \/ OptionsEnd
           \/ File \/ FilesEnd \/ InitScript \/ Program
           \/ EvalReturn \/ InitReturn \/ ProgramReturn \/ EntryReturn \/ IncludeReturn
           \/ StatementBegin \/ BlockNext \/ BlockEnd \/ ExprEnd
           \/ Refuse \/ Evaluate \/ Use \/ PrintStatement \/ Import \/ Exit
           \/ RequireCached \/ RequireNotFound \/ Include \/ Ended
    PROVE  Unseen
<1>1. /\ StackFits(disk, stack) /\ stack \in Seq(Frame)
      /\ ctl \in Idle => stack = <<>>
      /\ ctl \in Busy => stack # <<>>
  BY Parts DEF Machine, StackFits
\* Steps that leave the stack alone.
<1>2. ASSUME stack' = stack, loaded' = loaded
      PROVE  Unseen
  BY <1>2 DEF Unseen
\* The host runs a script: nothing is pending before and after.
<1>3. ASSUME stack = <<>>, loaded' = loaded, NEW p, NEW how \in Hosted, stack' = <<Fr(p, how)>>
      PROVE  Unseen
  <2>1. RequiringIn(stack) = {} /\ RequiringIn(stack') = {}
    BY <1>3, PendingEmpty
  <2>. QED  BY <1>3, <2>1, PendingSame DEF Unseen
<1>4. ASSUME ctl = "return", Top.how \notin Requires, stack' = Pop, loaded' = loaded
      PROVE  Unseen
  <2>1. stack # <<>> /\ Top = stack[Len(stack)] /\ stack' = Front(stack)
    BY <1>1, <1>4 DEF Busy, Top, Pop, Front
  <2>. QED  BY <1>1, <1>4, <2>1, PendingPop DEF Unseen
<1>5. CASE \/ StrictOption \/ InitOption \/ OptionsEnd \/ File \/ FilesEnd
           \/ StatementBegin \/ BlockEnd \/ ExprEnd
           \/ Refuse \/ Evaluate \/ Use \/ PrintStatement \/ Import \/ Exit
           \/ RequireCached \/ RequireNotFound \/ Ended
  BY <1>2, <1>5
     DEF StrictOption, InitOption, OptionsEnd, File, FilesEnd, StatementBegin, BlockEnd, ExprEnd,
         Refuse, Evaluate, Use, PrintStatement, Import, Exit, RequireCached, RequireNotFound,
         Ended, Go, Result, world, vars
<1>6. CASE EvalOption \/ InitScript \/ Program
  <2>1. stack = <<>> /\ loaded' = loaded
    BY <1>1, <1>6 DEF EvalOption, Option, InitScript, Program, Idle, world
  <2>2. CASE stack' = stack
    BY <1>2, <2>1, <2>2
  <2>3. ASSUME NEW p, NEW how \in Hosted, Run(p, how)
        PROVE  Unseen
    BY <1>3, <2>1, <2>3 DEF Run
  <2>4. {"eval", "init", "program"} \subseteq Hosted
    BY DEF Hosted
  <2>. QED  BY <1>6, <2>2, <2>3, <2>4 DEF EvalOption, InitScript, Program, Go
<1>7. CASE EvalReturn \/ InitReturn \/ EntryReturn \/ IncludeReturn
  BY <1>4, <1>7
     DEF EvalReturn, InitReturn, EntryReturn, IncludeReturn, Returned, Leave, Requires, world
<1>8. CASE ProgramReturn
  <2>1. ctl = "return" /\ Top.how = "program" /\ loaded' = loaded
    BY <1>8 DEF ProgramReturn, Returned
  <2>2. CASE stack' = Pop
    BY <1>4, <2>1, <2>2 DEF Requires
  <2>3. CASE stack' = <<Fr("main", "entry")>>
    <3>1. stack # <<>> /\ Top = stack[Len(stack)] /\ Top.how \in Hosted
      BY <1>1, <2>1 DEF Busy, Top, Hosted
    <3>2. Front(stack) = <<>> /\ PendingIn(Front(stack)) = PendingIn(stack)
      BY <1>1, <2>1, <3>1, PopFits, PendingPop DEF Requires
    <3>3. RequiringIn(<<>>) = {} /\ RequiringIn(stack') = {}
      BY <2>3, PendingEmpty DEF Hosted
    <3>4. PendingIn(stack') = PendingIn(<<>>)
      BY <3>3, PendingSame
    <3>. QED  BY <2>1, <3>2, <3>4 DEF Unseen
  <2>. QED  BY <1>8, <2>2, <2>3 DEF ProgramReturn, Run, Leave
<1>9. CASE BlockNext
  <2>1. /\ stack' = [stack EXCEPT ![Len(stack)].pc = @ + 1] /\ loaded' = loaded
    BY <1>9 DEF BlockNext, world
  <2>2. DOMAIN stack' = DOMAIN stack
    BY <2>1
  <2>3. \A i \in DOMAIN stack : stack'[i].path = stack[i].path /\ stack'[i].how = stack[i].how
    <3>1. \A i \in DOMAIN stack : stack[i] \in Frame
      BY <1>1, LenProperties, ElementOfSeq
    <3>. QED  BY <2>1, <3>1 DEF Frame
  <2>4. RequiringIn(stack') = RequiringIn(stack)
    BY <2>2, <2>3 DEF RequiringIn
  <2>5. \A i \in RequiringIn(stack) : stack'[i].path = stack[i].path
    BY <2>3 DEF RequiringIn
  <2>. QED  BY <2>1, <2>4, <2>5, PendingSame DEF Unseen
<1>10. CASE Include
  <2>1. ctl = "exec" /\ Current.op = "include" /\ loaded' = loaded
    BY <1>10 DEF Include, Exec, world
  <2>2. CASE Result("bottom")
    BY <1>2, <2>1, <2>2 DEF Result
  <2>3. CASE Enter(Current.path, "include")
    <3>1. Current \in Statement
      BY <1>1, <2>1, TopFits DEF Busy
    <3>2. Current.path \in Path /\ "include" \in Loading /\ "include" \notin Requires
      BY <2>1, <3>1 DEF Statement, Loading, Requires
    <3>. QED  BY <2>1, <2>3, <3>2, EnterPending DEF Unseen
  <2>. QED  BY <1>10, <2>2, <2>3 DEF Include
<1>. QED  BY <1>5, <1>6, <1>7, <1>8, <1>9, <1>10

\* require keeps the promises of ModuleCache: it never evaluates a file that is
\* loaded, evaluations end in the reverse of the order they began, and a file
\* is loaded at the step its evaluation ends.
THEOREM CacheImplemented == Spec => ImplementsCache
<1>1. Init => Cache!Init
  <2>1. ASSUME Init
        PROVE  Cache!Init
    <3>1. stack = <<>> /\ loaded = {}
      BY <2>1 DEF Init
    <3>2. Requiring = {}
      BY <3>1 DEF Requiring
    <3>. QED  BY <3>1, <3>2 DEF Cache!Init
  <2>. QED  BY <2>1
<1>2. HostInv /\ [Next]_vars
         => [Cache!Next]_<<loaded, [i \in Requiring |-> stack[i].path]>>
  <2>. SUFFICES ASSUME HostInv, [Next]_vars
                PROVE  [Cache!Next]_<<loaded, [i \in Requiring |-> stack[i].path]>>
    OBVIOUS
  <2>1. ASSUME Unseen
        PROVE  UNCHANGED <<loaded, [i \in Requiring |-> stack[i].path]>>
    BY <2>1, RequiringStack DEF Unseen
  <2>2. CASE UNCHANGED vars
    <3>1. Unseen
      BY <2>2 DEF vars, Unseen
    <3>. QED  BY <2>1, <3>1
  <2>3. CASE Require
    BY <2>1, <2>3, RequireStarts
  <2>4. CASE RequireReturn
    BY <2>4, RequireFinishes
  <2>5. CASE Next /\ ~Require /\ ~RequireReturn
    <3>1. Unseen
      BY <2>5, OthersUnseen DEF Next
    <3>. QED  BY <2>1, <3>1
  <2>. QED  BY <2>2, <2>3, <2>4, <2>5
<1>. QED  BY <1>1, <1>2, HostInvHolds, PTL DEF Spec, ImplementsCache, Cache!Spec
-----------------------------------------------------------------------------
(* A required file prints once                                              *)

\* What a script may load, and the files that reach themselves, on a disk d.
LoadsOn(d, p) == {t.path : t \in {s \in Range(d[p].body) : s.op \in Loading}}
ClosedOn(d, S) == \A q \in S : LoadsOn(d, q) \subseteq S
CyclicOn(d, p) == \A S \in SUBSET Path : LoadsOn(d, p) \subseteq S /\ ClosedOn(d, S) => p \in S

Output == [what : Outcomes \cup {"print"}, path : Path, pc : Nat, how : Hows]
OnceOn(d, o) ==
    \A i, j \in 1..Len(o) :
        i # j /\ o[i] = o[j] /\ o[i].how \in Requires => CyclicOn(d, o[i].path)

\* A script is reached by each of those below it on the stack.
Chained(d, s) ==
    \A i, j \in 1..Len(s) : i < j =>
        \A S \in SUBSET Path :
            LoadsOn(d, s[i].path) \subseteq S /\ ClosedOn(d, S) => s[j].path \in S

\* What require evaluates is not loaded yet.
Unloaded(d, s, l) ==
    \A i \in 1..Len(s) :
        s[i].how \in Requires /\ ~CyclicOn(d, s[i].path) => s[i].path \notin l

\* Frame i, with c to happen next on top, is past the statement that wrote r.
PastBy(r, s, c, i) ==
    /\ s[i].how \in Requires /\ s[i].path = r.path
    /\ \/ r.pc < s[i].pc
       \/ r.pc = s[i].pc /\ (i < Len(s) \/ c \notin {"begin", "exec"})

\* What a required file has written is of an evaluation that is over, or of one
\* that goes on and is past that statement.
Accounted(d, s, l, c, o) ==
    \A k \in 1..Len(o) : o[k].how \in Requires /\ ~CyclicOn(d, o[k].path) =>
        o[k].path \in l \/ \E i \in 1..Len(s) : PastBy(o[k], s, c, i)

OnceFor(d, s, l, c, o) ==
    /\ o \in Seq(Output)
    /\ OnceOn(d, o)
    /\ Chained(d, s)
    /\ Unloaded(d, s, l)
    /\ Accounted(d, s, l, c, o)

OnceInv == OnceFor(disk, stack, loaded, ctl, out)

\* OnceOn is RequiredOnce.
LEMMA OnceIsRequiredOnce ==
    ASSUME OnceInv
    PROVE  RequiredOnce
<1>1. DOMAIN out = 1..Len(out) /\ OnceOn(disk, out)
  BY LenProperties DEF OnceInv, OnceFor
<1>2. \A p : CyclicOn(disk, p) => Cyclic(p)
  BY DEF CyclicOn, ClosedOn, LoadsOn, Cyclic, Loads
<1>. QED  BY <1>1, <1>2 DEF OnceOn, RequiredOnce, Requires

\* A file below itself on the stack reaches itself.
LEMMA TwiceIsCyclic ==
    ASSUME NEW d, NEW s, Chained(d, s), NEW i \in 1..Len(s), NEW j \in 1..Len(s), i < j,
           s[i].path = s[j].path
    PROVE  CyclicOn(d, s[i].path)
  BY DEF Chained, CyclicOn

\* The scripts stay where they are, or are past a statement now.
LEMMA OnceStay ==
    ASSUME NEW d, NEW s, NEW l, NEW c, NEW c2, NEW o, OnceFor(d, s, l, c, o),
           s = <<>> \/ (c2 \in {"begin", "exec"} => c \in {"begin", "exec"})
    PROVE  OnceFor(d, s, l, c2, o)
<1>1. CASE s = <<>>
  <2>1. 1..Len(s) = {}
    BY <1>1, EmptySeq
  <2>. QED  BY <2>1 DEF OnceFor, Accounted
<1>2. CASE c2 \in {"begin", "exec"} => c \in {"begin", "exec"}
  <2>1. \A r, i : PastBy(r, s, c, i) => PastBy(r, s, c2, i)
    BY <1>2 DEF PastBy
  <2>. QED  BY <2>1 DEF OnceFor, Accounted
<1>. QED  BY <1>1, <1>2

\* The host writes what a program came to.
LEMMA OnceReport ==
    ASSUME NEW d, NEW s, NEW l, NEW c, NEW o, OnceFor(d, s, l, c, o),
           NEW r \in Output, r.how \notin Requires
    PROVE  OnceFor(d, s, l, c, Append(o, r))
<1>. DEFINE o2 == Append(o, r)
<1>1. /\ o \in Seq(Output) /\ o2 \in Seq(Output) /\ Len(o) \in Nat /\ Len(o2) = Len(o) + 1
      /\ \A k \in 1..Len(o) : o2[k] = o[k]
      /\ o2[Len(o) + 1] = r
  BY AppendProperties, LenProperties DEF OnceFor
<1>. HIDE DEF o2
<1>2. \A k \in 1..Len(o2) : o2[k].how \in Requires => k \in 1..Len(o) /\ o2[k] = o[k]
  BY <1>1
<1>3. OnceOn(d, o2)
  BY <1>2 DEF OnceFor, OnceOn
<1>4. Accounted(d, s, l, c, o2)
  BY <1>2 DEF OnceFor, Accounted
<1>. QED  BY <1>1, <1>3, <1>4 DEF OnceFor, o2

\* A script writes: had it written the same before, in this evaluation it would
\* be past the statement, and after an earlier one the file would be loaded.
LEMMA OncePrint ==
    ASSUME NEW d, NEW s \in Seq(Frame), s # <<>>, NEW l, NEW o, OnceFor(d, s, l, "exec", o),
           NEW r \in Output,
           r.path = s[Len(s)].path, r.pc = s[Len(s)].pc, r.how = s[Len(s)].how
    PROVE  OnceFor(d, s, l, "done", Append(o, r))
<1>. DEFINE o2 == Append(o, r)
            n == Len(s)
<1>1. /\ o \in Seq(Output) /\ o2 \in Seq(Output) /\ Len(o) \in Nat /\ Len(o2) = Len(o) + 1
      /\ \A k \in 1..Len(o) : o2[k] = o[k]
      /\ o2[Len(o) + 1] = r
  BY AppendProperties, LenProperties DEF OnceFor
<1>2. n \in 1..n /\ n \in Nat
  BY EmptySeq, LenProperties
<1>. HIDE DEF o2
<1>3. ASSUME NEW k \in 1..Len(o), o[k] = r, r.how \in Requires
      PROVE  CyclicOn(d, r.path)
  <2>. SUFFICES ASSUME ~CyclicOn(d, r.path)
                PROVE  FALSE
    OBVIOUS
  <2>1. r.path \notin l
    BY <1>2, <1>3 DEF OnceFor, Unloaded
  <2>2. PICK i \in 1..n : PastBy(r, s, "exec", i)
    BY <1>3, <2>1 DEF OnceFor, Accounted
  <2>3. CASE i < n
    BY <1>2, <2>2, <2>3, TwiceIsCyclic DEF PastBy, OnceFor
  <2>4. CASE i = n
    BY <2>2, <2>4 DEF PastBy, Output
  <2>. QED  BY <1>2, <2>3, <2>4
<1>4. OnceOn(d, o2)
  <2>1. ASSUME NEW i \in 1..Len(o2), NEW j \in 1..Len(o2), i # j, o2[i] = o2[j],
               o2[i].how \in Requires
        PROVE  CyclicOn(d, o2[i].path)
    <3>1. CASE i = Len(o) + 1
      BY <1>1, <1>3, <2>1, <3>1
    <3>2. CASE j = Len(o) + 1
      BY <1>1, <1>3, <2>1, <3>2
    <3>3. CASE i \in 1..Len(o) /\ j \in 1..Len(o)
      BY <1>1, <2>1, <3>3 DEF OnceFor, OnceOn
    <3>. QED  BY <1>1, <3>1, <3>2, <3>3
  <2>. QED  BY <2>1 DEF OnceOn
<1>5. Accounted(d, s, l, "done", o)
  BY OnceStay DEF OnceFor
<1>6. PastBy(r, s, "done", n) \/ r.how \notin Requires
  BY DEF PastBy
<1>7. Accounted(d, s, l, "done", o2)
  <2>1. ASSUME NEW k \in 1..Len(o2), o2[k].how \in Requires, ~CyclicOn(d, o2[k].path)
        PROVE  o2[k].path \in l \/ \E i \in 1..n : PastBy(o2[k], s, "done", i)
    <3>1. CASE k = Len(o) + 1
      BY <1>1, <1>2, <1>6, <2>1, <3>1
    <3>2. CASE k \in 1..Len(o)
      BY <1>1, <1>5, <2>1, <3>2 DEF Accounted
    <3>. QED  BY <1>1, <3>1, <3>2
  <2>. QED  BY <2>1 DEF Accounted
<1>. QED  BY <1>1, <1>4, <1>7 DEF OnceFor, o2

\* A block goes on to its next statement.
LEMMA OnceAdvance ==
    ASSUME NEW d, NEW s \in Seq(Frame), s # <<>>, NEW l, NEW c, NEW o, OnceFor(d, s, l, c, o)
    PROVE  OnceFor(d, [s EXCEPT ![Len(s)].pc = @ + 1], l, "begin", o)
<1>. DEFINE t == [s EXCEPT ![Len(s)].pc = @ + 1]
            n == Len(s)
<1>1. n \in Nat /\ n \in 1..n /\ DOMAIN s = 1..n /\ \A i \in 1..n : s[i] \in Frame
  BY EmptySeq, LenProperties, ElementOfSeq
<1>2. /\ DOMAIN t = 1..n
      /\ \A i \in 1..n : t[i].path = s[i].path /\ t[i].how = s[i].how
      /\ \A i \in 1..n : i # n => t[i].pc = s[i].pc
      /\ t[n].pc = s[n].pc + 1
  BY <1>1 DEF Frame
<1>3. Len(t) = n
  BY <1>1, <1>2, LenProperties
<1>4. \A i \in 1..n : s[i].pc \in Nat
  BY <1>1 DEF Frame
<1>. HIDE DEF t
<1>5. Chained(d, t) /\ Unloaded(d, t, l)
  BY <1>2, <1>3 DEF OnceFor, Chained, Unloaded
<1>6. ASSUME NEW r \in Output, NEW i \in 1..n, PastBy(r, s, c, i)
      PROVE  PastBy(r, t, "begin", i)
  <2>1. r.pc \in Nat
    BY DEF Output
  <2>2. CASE i = n
    <3>1. s[i].how \in Requires /\ s[i].path = r.path /\ r.pc <= s[i].pc
      BY <1>4, <1>6, <2>1 DEF PastBy
    <3>2. t[i].how \in Requires /\ t[i].path = r.path /\ t[i].pc = s[i].pc + 1
      BY <1>2, <2>2, <3>1
    <3>3. r.pc < t[i].pc
      BY <1>4, <2>1, <3>1, <3>2
    <3>. QED  BY <3>2, <3>3 DEF PastBy
  <2>3. CASE i # n
    <3>1. i < Len(t)
      <4>1. \A m \in Nat : \A j \in 1..m : j # m => j < m
        OBVIOUS
      <4>2. n \in Nat
        BY LenProperties
      <4>. QED  BY <1>3, <1>6, <2>3, <4>1, <4>2
    <3>2. t[i].how = s[i].how /\ t[i].path = s[i].path /\ t[i].pc = s[i].pc
      BY <1>2, <2>3
    <3>3. s[i].how \in Requires /\ s[i].path = r.path /\ (r.pc < s[i].pc \/ r.pc = s[i].pc)
      BY <1>6 DEF PastBy
    <3>. QED  BY <3>1, <3>2, <3>3 DEF PastBy
  <2>. QED  BY <2>2, <2>3
<1>7. \A k \in 1..Len(o) : o[k] \in Output
  BY ElementOfSeq DEF OnceFor
<1>8. Accounted(d, t, l, "begin", o)
  BY <1>3, <1>6, <1>7 DEF OnceFor, Accounted
<1>. QED  BY <1>5, <1>8 DEF OnceFor, t

\* A statement loads a file: require only one that is not loaded.
LEMMA OncePush ==
    ASSUME NEW d, NEW s \in Seq(Frame), s # <<>>, NEW l, NEW c, NEW o, OnceFor(d, s, l, c, o),
           NEW p \in LoadsOn(d, s[Len(s)].path), NEW f \in Frame, f.path = p,
           f.how \in Requires => p \notin l
    PROVE  OnceFor(d, Append(s, f), l, "begin", o)
<1>. DEFINE t == Append(s, f)
            n == Len(s)
<1>1. /\ n \in Nat /\ n \in 1..n /\ Len(t) = n + 1
      /\ \A i \in 1..n : t[i] = s[i]
      /\ t[n + 1] = f
  BY AppendProperties, LenProperties, EmptySeq
<1>. HIDE DEF t
<1>2. Chained(d, t)
  <2>1. ASSUME NEW i \in 1..Len(t), NEW j \in 1..Len(t), i < j, NEW S \in SUBSET Path,
               LoadsOn(d, t[i].path) \subseteq S, ClosedOn(d, S)
        PROVE  t[j].path \in S
    <3>1. i \in 1..n /\ t[i] = s[i]
      BY <1>1, <2>1
    <3>2. CASE j \in 1..n
      BY <1>1, <2>1, <3>1, <3>2 DEF OnceFor, Chained
    <3>3. CASE j = n + 1 /\ i = n
      BY <1>1, <2>1, <3>1, <3>3
    <3>4. CASE j = n + 1 /\ i # n
      <4>1. s[n].path \in S
        BY <1>1, <2>1, <3>1, <3>4 DEF OnceFor, Chained
      <4>2. LoadsOn(d, s[n].path) \subseteq S
        BY <2>1, <4>1 DEF ClosedOn
      <4>. QED  BY <1>1, <3>4, <4>2
    <3>. QED  BY <1>1, <3>2, <3>3, <3>4
  <2>. QED  BY <2>1 DEF Chained
<1>3. Unloaded(d, t, l)
  <2>1. ASSUME NEW i \in 1..Len(t), t[i].how \in Requires, ~CyclicOn(d, t[i].path)
        PROVE  t[i].path \notin l
    <3>1. CASE i = n + 1
      BY <1>1, <2>1, <3>1
    <3>2. CASE i \in 1..n
      BY <1>1, <2>1, <3>2 DEF OnceFor, Unloaded
    <3>. QED  BY <1>1, <3>1, <3>2
  <2>. QED  BY <2>1 DEF Unloaded
<1>4. \A r, i : i \in 1..n /\ PastBy(r, s, c, i) => i \in 1..Len(t) /\ PastBy(r, t, "begin", i)
  BY <1>1 DEF PastBy
<1>5. Accounted(d, t, l, "begin", o)
  BY <1>4 DEF OnceFor, Accounted
<1>. QED  BY <1>2, <1>3, <1>5 DEF OnceFor, t

\* What remains of a stack is as it was.
LEMMA OnceFront ==
    ASSUME NEW d, NEW s \in Seq(Frame), s # <<>>, NEW l, Chained(d, s), Unloaded(d, s, l)
    PROVE  /\ Chained(d, Front(s)) /\ Unloaded(d, Front(s), l)
           /\ Len(s) \in Nat \ {0} /\ Len(Front(s)) = Len(s) - 1
           /\ \A i \in 1..(Len(s) - 1) : Front(s)[i] = s[i]
<1>. DEFINE t == Front(s)
<1>1. /\ Len(s) \in Nat \ {0} /\ Len(t) = Len(s) - 1
      /\ \A i \in 1..(Len(s) - 1) : t[i] = s[i]
  BY FrontOfStack, EmptySeq DEF Front
<1>. HIDE DEF t
<1>2. \A i \in 1..Len(t) : i \in 1..Len(s) /\ t[i] = s[i]
  BY <1>1
<1>3. Chained(d, t)
  BY <1>2 DEF Chained
<1>4. Unloaded(d, t, l)
  BY <1>2 DEF Unloaded
<1>. QED  BY <1>1, <1>3, <1>4 DEF t

\* A script that was not required is left.
LEMMA OncePop ==
    ASSUME NEW d, NEW s \in Seq(Frame), s # <<>>, NEW l, NEW o, OnceFor(d, s, l, "return", o),
           s[Len(s)].how \notin Requires, NEW c, c = "done" \/ Front(s) = <<>>
    PROVE  OnceFor(d, Front(s), l, c, o)
<1>. DEFINE t == Front(s)
<1>1. /\ Chained(d, t) /\ Unloaded(d, t, l)
      /\ Len(s) \in Nat \ {0} /\ Len(t) = Len(s) - 1
      /\ \A i \in 1..(Len(s) - 1) : t[i] = s[i]
  BY OnceFront DEF OnceFor
<1>. HIDE DEF t
<1>2. \A r, i : i \in 1..Len(s) /\ PastBy(r, s, "return", i)
                   => i \in 1..Len(t) /\ PastBy(r, t, "done", i)
  BY <1>1 DEF PastBy
<1>3. OnceFor(d, t, l, "done", o)
  BY <1>1, <1>2 DEF OnceFor, Accounted
<1>. QED  BY <1>3, OnceStay DEF t

\* A required script is left, and loaded: of a file that does not reach itself
\* no other evaluation is under way.
LEMMA OnceLoad ==
    ASSUME NEW d, NEW s \in Seq(Frame), s # <<>>, NEW l, NEW o, OnceFor(d, s, l, "return", o)
    PROVE  OnceFor(d, Front(s), l \cup {s[Len(s)].path}, "done", o)
<1>. DEFINE t == Front(s)
            n == Len(s)
            m == l \cup {s[Len(s)].path}
<1>1. /\ Chained(d, t) /\ Unloaded(d, t, l)
      /\ n \in Nat \ {0} /\ Len(t) = n - 1
      /\ \A i \in 1..(n - 1) : t[i] = s[i]
  BY OnceFront DEF OnceFor
<1>. HIDE DEF t
<1>2. Unloaded(d, t, m)
  <2>1. ASSUME NEW i \in 1..Len(t), t[i].how \in Requires, ~CyclicOn(d, t[i].path)
        PROVE  t[i].path \notin m
    <3>1. t[i].path \notin l
      BY <1>1, <2>1 DEF Unloaded
    <3>2. i \in 1..n /\ n \in 1..n /\ i < n /\ t[i] = s[i]
      BY <1>1
    <3>3. s[i].path # s[n].path
      BY <2>1, <3>2, TwiceIsCyclic DEF OnceFor
    <3>. QED  BY <3>1, <3>2, <3>3
  <2>. QED  BY <2>1 DEF Unloaded
<1>3. \A r, i : i \in 1..n /\ PastBy(r, s, "return", i)
                   => r.path \in m \/ (i \in 1..Len(t) /\ PastBy(r, t, "done", i))
  BY <1>1 DEF PastBy
<1>4. Accounted(d, t, m, "done", o)
  BY <1>3 DEF OnceFor, Accounted
<1>. QED  BY <1>1, <1>2, <1>4 DEF OnceFor, t

\* The host runs a script.
LEMMA OnceRun ==
    ASSUME NEW d, NEW l, NEW c, NEW o, OnceFor(d, <<>>, l, c, o),
           NEW f \in Frame, f.how \notin Requires
    PROVE  OnceFor(d, <<f>>, l, "begin", o)
<1>. DEFINE t == <<f>>
<1>1. 1..Len(<<>>) = {}
  BY EmptySeq
<1>2. Len(t) = 1 /\ t[1] = f
  OBVIOUS
<1>. HIDE DEF t
<1>3. \A i \in 1..Len(t) : i = 1
  BY <1>2
<1>4. Chained(d, t) /\ Unloaded(d, t, l)
  BY <1>2, <1>3 DEF Chained, Unloaded
<1>5. Accounted(d, t, l, "begin", o)
  BY <1>1 DEF OnceFor, Accounted
<1>. QED  BY <1>4, <1>5 DEF OnceFor, t
\* What a statement loads is among what its script may load.
LEMMA LoadsCurrent ==
    ASSUME HostInv, ctl = "exec", Current.op \in Loading
    PROVE  Current.path \in LoadsOn(disk, Top.path)
<1>1. FrameFits(disk, Top, Len(stack))
  BY Parts, TopFits DEF Machine, Busy
<1>2. Top.pc \in DOMAIN disk[Top.path].body
  BY <1>1 DEF FrameFits
<1>3. Current \in Range(disk[Top.path].body)
  BY <1>2 DEF Current, Range
<1>. QED  BY <1>3 DEF LoadsOn

\* A statement loads a file, or the process ends for want of stack.
LEMMA OnceEnter ==
    ASSUME HostInv, OnceInv, ctl = "exec", NEW p \in Path, NEW how \in Loading,
           p \in LoadsOn(disk, Top.path), how \in Requires => p \notin loaded,
           Enter(p, how), UNCHANGED <<loaded, out>>
    PROVE  OnceInv'
<1>1. /\ stack # <<>> /\ stack \in Seq(Frame) /\ Top = stack[Len(stack)]
      /\ OnceFor(disk, stack, loaded, ctl, out)
  BY Parts, TopFits DEF Machine, Busy, StackFits, OnceInv
<1>2. CASE Go("exit")
  BY <1>1, <1>2, OnceStay DEF Go, OnceInv
<1>3. CASE stack' = Append(stack, Fr(p, how)) /\ ctl' = "begin" /\ disk' = disk
  <2>1. Fr(p, how) \in Frame /\ Fr(p, how).path = p /\ Fr(p, how).how = how
    BY DEF Fr, Frame, Loading, Hows
  <2>2. OnceFor(disk, Append(stack, Fr(p, how)), loaded, "begin", out)
    BY <1>1, <2>1, OncePush
  <2>. QED  BY <1>3, <2>2 DEF OnceInv
<1>. QED  BY <1>2, <1>3 DEF Enter

\* A frame of the host.
LEMMA HostedFrame ==
    ASSUME NEW p \in Path, NEW how \in Hosted
    PROVE  Fr(p, how) \in Frame /\ Fr(p, how).how \notin Requires
  BY DEF Fr, Frame, Hosted, Hows, Requires

\* Steps between scripts.
LEMMA OnceBetween ==
    ASSUME HostInv, OnceInv,
           \/ StrictOption \/ InitOption \/ EvalOption \/ OptionsEnd
           \/ File \/ FilesEnd \/ InitScript \/ Program
    PROVE  OnceInv'
<1>1. stack = <<>> /\ OnceFor(disk, <<>>, loaded, ctl, out) /\ init \in Path \cup {""}
  <2>1. ctl \in Idle
    BY DEF StrictOption, InitOption, EvalOption, OptionsEnd, File, FilesEnd, InitScript,
           Program, Option, Idle
  <2>. QED  BY <2>1, Parts DEF Machine, OnceInv, Values
<1>2. UNCHANGED <<disk, loaded, out>>
  BY DEF StrictOption, InitOption, EvalOption, OptionsEnd, File, FilesEnd, InitScript,
         Program, Go, Run, world
<1>3. ASSUME stack' = stack
      PROVE  OnceInv'
  <2>1. OnceFor(disk, <<>>, loaded, ctl', out)
    BY <1>1, OnceStay
  <2>. QED  BY <1>1, <1>2, <1>3, <2>1 DEF OnceInv
<1>4. ASSUME NEW p \in Path, NEW how \in Hosted, Run(p, how)
      PROVE  OnceInv'
  <2>1. OnceFor(disk, <<Fr(p, how)>>, loaded, "begin", out)
    BY <1>1, HostedFrame, OnceRun
  <2>. QED  BY <1>2, <1>4, <2>1 DEF Run, OnceInv
<1>5. CASE StrictOption \/ InitOption \/ OptionsEnd \/ File \/ FilesEnd
  BY <1>3, <1>5 DEF StrictOption, InitOption, OptionsEnd, File, FilesEnd, Go
<1>6. CASE EvalOption
  <2>1. Head(cmd.options) \in Options /\ Head(cmd.options).opt = "-e"
    BY <1>6, Parts, RestFits DEF EvalOption, Option
  <2>2. Head(cmd.options).path \in Path
    BY <2>1 DEF Options
  <2>. QED  BY <1>3, <1>4, <1>6, <2>2 DEF EvalOption, Go, Hosted
<1>7. CASE InitScript
  BY <1>1, <1>3, <1>4, <1>7 DEF InitScript, Go, Hosted
<1>8. CASE Program
  <2>1. Head(cmd.files) \in Path
    BY <1>8, Parts DEF Program, Machine, AtFile, Readable
  <2>. QED  BY <1>4, <1>8, <2>1 DEF Program, Hosted
<1>. QED  BY <1>5, <1>6, <1>7, <1>8

\* Scripts return.
LEMMA OnceReturns ==
    ASSUME HostInv, OnceInv,
           \/ EvalReturn \/ InitReturn \/ ProgramReturn \/ EntryReturn
           \/ RequireReturn \/ IncludeReturn
    PROVE  OnceInv'
<1>1. ctl = "return"
  BY DEF EvalReturn, InitReturn, ProgramReturn, EntryReturn, RequireReturn, IncludeReturn, Returned
<1>2. /\ stack # <<>> /\ stack \in Seq(Frame) /\ StackFits(disk, stack)
      /\ Top = stack[Len(stack)] /\ Top \in Frame /\ Pop = Front(stack)
      /\ Top.how \in Hosted <=> Front(stack) = <<>>
      /\ OnceFor(disk, stack, loaded, "return", out)
  BY <1>1, Parts, TopFits, PopFits DEF Machine, Busy, StackFits, OnceInv, Pop, Front
\* One that was not required is left.
<1>3. ASSUME Top.how \notin Requires, NEW c, c = "done" \/ Top.how \in Hosted
      PROVE  OnceFor(disk, Front(stack), loaded, c, out)
  BY <1>2, <1>3, OncePop
<1>4. ASSUME Top.how \notin Requires, disk' = disk, stack' = Pop, UNCHANGED <<loaded, out>>,
             ctl' = "done" \/ Top.how \in Hosted
      PROVE  OnceInv'
  BY <1>2, <1>3, <1>4 DEF OnceInv
<1>5. ASSUME Top.how \in Hosted, disk' = disk, stack' = Pop, loaded' = loaded, Report
      PROVE  OnceInv'
  <2>1. Top.how \notin Requires
    BY <1>5 DEF Hosted, Requires
  <2>2. OnceFor(disk, Front(stack), loaded, ctl', out)
    BY <1>3, <1>5, <2>1
  <2>. DEFINE r == [what |-> val, path |-> Top.path, pc |-> 0, how |-> Top.how]
  <2>3. r \in Output /\ r.how \notin Requires
    BY <1>2, <2>1, Parts DEF Output, Values, Frame
  <2>. HIDE DEF r
  <2>4. OnceFor(disk, Front(stack), loaded, ctl', Append(out, r))
    BY <2>2, <2>3, OnceReport
  <2>5. out' = out \/ out' = Append(out, r)
    BY <1>5 DEF Report, r
  <2>. QED  BY <1>2, <1>5, <2>2, <2>4, <2>5 DEF OnceInv
<1>6. CASE EvalReturn
  BY <1>5, <1>6 DEF EvalReturn, Returned, Leave, Hosted
<1>7. CASE InitReturn \/ EntryReturn \/ IncludeReturn
  BY <1>4, <1>7
     DEF InitReturn, EntryReturn, IncludeReturn, Returned, Leave, Hosted, Requires, world
<1>8. CASE ProgramReturn
  <2>1. Top.how = "program" /\ Top.how \in Hosted /\ Top.how \notin Requires /\ loaded' = loaded
    BY <1>8 DEF ProgramReturn, Returned, Hosted, Requires
  <2>2. CASE Report /\ Leave("files")
    BY <1>5, <2>1, <2>2 DEF Leave
  <2>3. CASE Run("main", "entry") /\ out' = out
    <3>1. OnceFor(disk, <<>>, loaded, "files", out)
      BY <1>2, <1>3, <2>1
    <3>2. "main" \in Path /\ "entry" \in Hosted
      BY HostAssumption DEF Hosted
    <3>3. OnceFor(disk, <<Fr("main", "entry")>>, loaded, "begin", out)
      BY <3>1, <3>2, HostedFrame, OnceRun
    <3>. QED  BY <2>1, <2>3, <3>3 DEF Run, OnceInv
  <2>. QED  BY <1>8, <2>2, <2>3 DEF ProgramReturn
<1>9. CASE RequireReturn
  <2>1. OnceFor(disk, Front(stack), loaded \cup {Top.path}, "done", out)
    BY <1>2, OnceLoad
  <2>. QED  BY <1>2, <1>9, <2>1 DEF RequireReturn, OnceInv
<1>. QED  BY <1>6, <1>7, <1>8, <1>9

\* Statements and their operations.
LEMMA OnceStatements ==
    ASSUME HostInv, OnceInv,
           \/ StatementBegin \/ BlockNext \/ BlockEnd \/ ExprEnd
           \/ Refuse \/ Evaluate \/ Use \/ PrintStatement \/ Import \/ Exit
           \/ RequireCached \/ RequireNotFound \/ Require \/ Include
    PROVE  OnceInv'
<1>1. ctl \in {"begin", "exec", "done"}
  BY DEF StatementBegin, BlockNext, BlockEnd, ExprEnd, Refuse, Evaluate, Use, PrintStatement,
         Import, Exit, RequireCached, RequireNotFound, Require, Include, Permitted, Exec
<1>2. /\ stack # <<>> /\ stack \in Seq(Frame) /\ StackFits(disk, stack)
      /\ Top = stack[Len(stack)] /\ Top \in Frame
      /\ Current \in Statement
      /\ OnceFor(disk, stack, loaded, ctl, out)
  BY <1>1, Parts, TopFits DEF Machine, Busy, StackFits, OnceInv
<1>3. ASSUME UNCHANGED <<disk, stack, loaded, out>>, ctl' \in {"begin", "exec"} => ctl \in {"begin", "exec"}
      PROVE  OnceInv'
  BY <1>2, <1>3, OnceStay DEF OnceInv
<1>4. CASE StatementBegin \/ BlockEnd \/ ExprEnd \/ Refuse \/ Evaluate \/ Use \/ Import \/ Exit
           \/ RequireCached \/ RequireNotFound
  <2>1. UNCHANGED <<disk, stack, loaded, out>>
    BY <1>4
       DEF StatementBegin, BlockEnd, ExprEnd, Refuse, Evaluate, Use, Import, Exit,
           RequireCached, RequireNotFound, Go, Result, world
  <2>2. ctl' \in {"begin", "exec"} => ctl \in {"begin", "exec"}
    BY <1>4
       DEF StatementBegin, BlockEnd, ExprEnd, Refuse, Evaluate, Use, Import, Exit,
           RequireCached, RequireNotFound, Go, Result
  <2>. QED  BY <1>3, <2>1, <2>2
<1>5. CASE BlockNext
  <2>1. OnceFor(disk, [stack EXCEPT ![Len(stack)].pc = @ + 1], loaded, "begin", out)
    BY <1>2, OnceAdvance
  <2>. QED  BY <1>5, <2>1 DEF BlockNext, OnceInv, world
<1>6. CASE PrintStatement
  <2>. DEFINE r == [what |-> "print", path |-> Top.path, pc |-> Top.pc, how |-> Top.how]
  <2>1. /\ r \in Output /\ r.path = Top.path /\ r.pc = Top.pc /\ r.how = Top.how
    BY <1>2 DEF Output, Frame
  <2>2. /\ ctl = "exec" /\ out' = Append(out, r) /\ ctl' = "done"
        /\ UNCHANGED <<disk, stack, loaded>>
    BY <1>6 DEF PrintStatement, Permitted, Exec, Result
  <2>. HIDE DEF r
  <2>3. OnceFor(disk, stack, loaded, "done", Append(out, r))
    BY <1>2, <2>1, <2>2, OncePrint
  <2>. QED  BY <2>2, <2>3 DEF OnceInv
<1>7. CASE Require
  <2>1. /\ ctl = "exec" /\ Current.op \in {"require", "requireOpt"} /\ Current.path \notin loaded
        /\ Enter(Current.path, Current.op) /\ UNCHANGED <<loaded, out>>
    BY <1>7 DEF Require, Permitted, Exec, world
  <2>2. Current.op \in Loading /\ Current.path \in Path
    BY <1>2, <2>1 DEF Statement, Loading
  <2>. QED  BY <2>1, <2>2, LoadsCurrent, OnceEnter
<1>8. CASE Include
  <2>1. ctl = "exec" /\ Current.op = "include" /\ UNCHANGED <<loaded, out>>
    BY <1>8 DEF Include, Exec, world
  <2>2. "include" \in Loading /\ "include" \notin Requires /\ Current.path \in Path
    BY <1>2, <2>1 DEF Statement, Loading, Requires
  <2>3. CASE Result("bottom")
    BY <1>3, <2>1, <2>3 DEF Result
  <2>4. CASE Enter(Current.path, "include")
    BY <2>1, <2>2, <2>4, LoadsCurrent, OnceEnter
  <2>. QED  BY <1>8, <2>3, <2>4 DEF Include
<1>. QED  BY <1>4, <1>5, <1>6, <1>7, <1>8

\* What was required is never evaluated again unless it reaches itself: however
\* its evaluation ended, and from wherever it is required, no statement of it
\* writes a second time (require.c, modules.c).
THEOREM RequiredFilesPrintOnce == Spec => []RequiredOnce
<1>1. Init => OnceInv
  <2>1. <<>> \in Seq(Output) /\ 1..Len(<<>>) = {}
    BY EmptySeq
  <2>. QED  BY <2>1 DEF Init, OnceInv, OnceFor, OnceOn, Chained, Unloaded, Accounted
<1>2. HostInv /\ OnceInv /\ [Next]_vars => OnceInv'
  <2>. SUFFICES ASSUME HostInv, OnceInv, [Next]_vars
                PROVE  OnceInv'
    OBVIOUS
  <2>1. CASE UNCHANGED vars \/ Ended
    BY <2>1 DEF Ended, vars, OnceInv
  <2>2. CASE \/ StrictOption \/ InitOption \/ EvalOption \/ OptionsEnd
             \/ File \/ FilesEnd \/ InitScript \/ Program
    BY <2>2, OnceBetween
  <2>3. CASE \/ EvalReturn \/ InitReturn \/ ProgramReturn \/ EntryReturn
             \/ RequireReturn \/ IncludeReturn
    BY <2>3, OnceReturns
  <2>4. CASE \/ StatementBegin \/ BlockNext \/ BlockEnd \/ ExprEnd
             \/ Refuse \/ Evaluate \/ Use \/ PrintStatement \/ Import \/ Exit
             \/ RequireCached \/ RequireNotFound \/ Require \/ Include
    BY <2>4, OnceStatements
  <2>. QED  BY <2>1, <2>2, <2>3, <2>4 DEF Next
<1>3. OnceInv => RequiredOnce
  BY OnceIsRequiredOnce
<1>. QED  BY <1>1, <1>2, <1>3, HostInvHolds, PTL DEF Spec
=============================================================================
