--------------------------- MODULE PodAccessProofs ---------------------------
(***************************************************************************)
(* Proofs about PodAccess: what a renter's key file holds, and who may     *)
(* read it, for any number of commands, any keys and any reports, which    *)
(* change no command and no file; then what the record of host keys holds, *)
(* for reports of any number of values.                                    *)
(***************************************************************************)
EXTENDS PodAccess, FoldLemmas, FiniteSetTheorems

-----------------------------------------------------------------------------
\* The key file.

Steps == {"new", "ports", "open", "write", "chmod"}
Ends == {"no", "exit 0", "exit 1", "killed"}

\* What the commands and the file range over.
TypeOK ==
    /\ access \in PrivateKeys \cup {NoKey, "no endpoint"}
    /\ pc \in [Commands -> Steps] /\ end \in [Commands -> Ends]
    /\ info \in [Commands -> PrivateKeys \cup {NoKey}]
    /\ text \in Texts /\ whole \in BOOLEAN
    /\ mode \in Modes

\* The text comes from the commands, in one of three ways.
Explained ==
    \/ \E c \in Opened : text = info[c]
    \/ text = "" /\ \E c \in Opened : pc[c] = "write"
    \/ text = "mixed" /\ \E c, d \in Opened : info[c] # info[d]

PartExplained ==
    ~whole => \E c \in Opened : text = info[c] /\ pc[c] = "write" /\ end[c] = "exit 1"

DoneIsPrivate == (\E c \in Commands : end[c] = "exit 0") => mode = "private"

\* A text that is equal to `before` may still be one that a command wrote: so
\* SavedKeyIsGiven alone is not inductive.  The last conjunct says that only
\* the last step ends well.
PodInv ==
    /\ TypeOK
    /\ IF Opened = {} THEN text = before ELSE Explained
    /\ PartExplained
    /\ DoneIsPrivate
    /\ \A c \in Commands : end[c] = "exit 0" => pc[c] = "chmod"

LEMMA PodImplies == PodInv => SavedKeyIsGiven /\ PrivateWhenDone
  <1> SUFFICES ASSUME PodInv PROVE SavedKeyIsGiven /\ PrivateWhenDone
    OBVIOUS
  <1>1. SavedKeyIsGiven
    BY DEF PodInv, SavedKeyIsGiven, Explained, PartExplained
  <1>2. ASSUME mode = "umask", text # before
        PROVE  \E c \in Opened : end[c] # "exit 0"
    <2>1. PICK c \in Opened : TRUE
      BY <1>2 DEF PodInv
    <2> QED
      BY <1>2, <2>1 DEF PodInv, DoneIsPrivate, Opened
  <1> QED
    BY <1>1, <1>2 DEF PodInv, DoneIsPrivate, PrivateWhenDone

-----------------------------------------------------------------------------

LEMMA InitPod == Init => PodInv
  <1> SUFFICES ASSUME Init PROVE PodInv
    OBVIOUS
  <1>1. TypeOK
    BY DEF Init, TypeOK, Steps, Ends, Texts, Modes
  <1>2. Opened = {} /\ text = before
    BY DEF Init, Opened
  <1> QED
    BY <1>1, <1>2 DEF Init, PodInv, PartExplained, DoneIsPrivate

\* What every step keeps: the text is explained as long as the file is as it
\* was, no command goes back, and no other opens it.
LEMMA FileKept ==
    ASSUME PodInv, UNCHANGED <<text, whole, before>>, Opened' = Opened,
           \A c \in Opened : /\ info'[c] = info[c] /\ pc'[c] = pc[c]
                             /\ end[c] = "exit 1" => end'[c] = "exit 1"
    PROVE  /\ (IF Opened = {} THEN text = before ELSE Explained)'
           /\ PartExplained'
  <1>1. (IF Opened = {} THEN text = before ELSE Explained)'
    <2>1. CASE Opened = {}
      BY <2>1 DEF PodInv
    <2>2. CASE \E c \in Opened : text = info[c]
      BY <2>2 DEF Explained
    <2>3. CASE text = "" /\ \E c \in Opened : pc[c] = "write"
      BY <2>3 DEF Explained
    <2>4. CASE text = "mixed" /\ \E c, d \in Opened : info[c] # info[d]
      BY <2>4 DEF Explained
    <2> QED
      BY <2>1, <2>2, <2>3, <2>4 DEF PodInv, Explained
  <1>2. PartExplained'
    BY DEF PodInv, PartExplained
  <1> QED
    BY <1>1, <1>2

\* Steps before the file is opened.
LEMMA EarlyStep ==
    ASSUME PodInv, NEW c \in Commands, NEW step \in {"new", "ports", "open"},
           pc[c] \notin {"write", "chmod"}, pc' = [pc EXCEPT ![c] = step], UNCHANGED end,
           info' \in [Commands -> PrivateKeys \cup {NoKey}],
           \A d \in Commands : d # c => info'[d] = info[d],
           access' = access, UNCHANGED filevars, end[c] = "no"
    PROVE  PodInv'
  <1>1. \A d \in Commands : pc'[d] = IF d = c THEN step ELSE pc[d]
    BY DEF PodInv, TypeOK
  <1>2. TypeOK'
    BY DEF PodInv, TypeOK, Steps, Ends, Texts, Modes, filevars
  <1>3. Opened' = Opened /\ c \notin Opened
    BY <1>1 DEF Opened
  <1>4. \A d \in Opened : d \in Commands /\ d # c
    BY <1>3 DEF Opened
  <1>5. /\ (IF Opened = {} THEN text = before ELSE Explained)'
        /\ PartExplained'
    BY <1>1, <1>3, <1>4, FileKept DEF filevars
  <1>6. DoneIsPrivate' /\ \A d \in Commands : end'[d] = "exit 0" => pc'[d] = "chmod"
    BY <1>1 DEF PodInv, DoneIsPrivate, filevars
  <1> QED
    BY <1>2, <1>5, <1>6 DEF PodInv

\* A command that ends, in any step, but does not end well.
LEMMA EndStep ==
    ASSUME PodInv, NEW c \in Commands, NEW how \in {"exit 1", "killed"}, end[c] = "no",
           End(c, how), UNCHANGED <<access, info, filevars>>
    PROVE  PodInv'
  <1>1. \A d \in Commands : end'[d] = IF d = c THEN how ELSE end[d]
    BY DEF PodInv, TypeOK, End
  <1>2. TypeOK'
    BY DEF PodInv, TypeOK, Steps, Ends, Texts, Modes, End, filevars
  <1>3. /\ (IF Opened = {} THEN text = before ELSE Explained)'
        /\ PartExplained'
    <2>1. Opened' = Opened /\ Opened \subseteq Commands
      BY DEF Opened, End
    <2> QED
      BY <1>1, <2>1, FileKept DEF End, filevars
  <1>4. DoneIsPrivate' /\ \A d \in Commands : end'[d] = "exit 0" => pc'[d] = "chmod"
    BY <1>1 DEF PodInv, DoneIsPrivate, End, filevars
  <1> QED
    BY <1>2, <1>3, <1>4 DEF PodInv

LEMMA OpenStep == ASSUME PodInv, NEW c \in Commands, Open(c) PROVE PodInv'
  <1>1. \A d \in Commands : pc'[d] = IF d = c THEN "write" ELSE pc[d]
    BY DEF PodInv, TypeOK, Open, Goto
  <1>2. TypeOK'
    BY DEF PodInv, TypeOK, Steps, Ends, Texts, Modes, Open, Truncated, Goto, podvars
  <1>3. c \in Opened' /\ Explained' /\ PartExplained'
    BY <1>1 DEF Explained, PartExplained, Opened, Open, Truncated
  <1>4. DoneIsPrivate' /\ \A d \in Commands : end'[d] = "exit 0" => pc'[d] = "chmod"
    BY <1>1 DEF PodInv, DoneIsPrivate, Open, Truncated, Goto, At
  <1> QED
    BY <1>2, <1>3, <1>4 DEF PodInv

\* The text that is written meets only texts that commands wrote before: two
\* that differ are of two commands with different answers.
LEMMA WrittenText ==
    ASSUME PodInv, NEW c \in Commands, pc[c] = "write", info' = info,
           Opened' = Opened, text' = info[c] \/ (text' = "mixed" /\ text \notin {"", info[c]})
    PROVE  /\ (IF Opened = {} THEN text = before ELSE Explained)'
           /\ text' \in Texts
  <1>1. c \in Opened /\ Explained
    BY DEF Opened, PodInv
  <1>2. CASE text' = info[c]
    BY <1>1, <1>2 DEF Explained, PodInv, TypeOK, Texts
  <1>3. CASE text' = "mixed" /\ text \notin {"", info[c]}
    <2>1. \E d, e \in Opened : info[d] # info[e]
      BY <1>1, <1>3 DEF Explained
    <2> QED
      BY <1>1, <1>3, <2>1 DEF Explained, Texts
  <1> QED
    BY <1>2, <1>3

LEMMA WriteStep == ASSUME PodInv, NEW c \in Commands, Write(c) PROVE PodInv'
  <1>1. \A d \in Commands : pc'[d] = IF d = c THEN "chmod" ELSE pc[d]
    BY DEF PodInv, TypeOK, Write, Goto
  <1>2. info' = info /\ pc[c] = "write" /\ end' = end /\ mode' = mode /\ before' = before
    BY DEF Write, At, Goto
  <1>3. Opened' = Opened
    BY <1>1, <1>2 DEF Opened
  <1>4. /\ whole' = TRUE
        /\ text' = info[c] \/ (text' = "mixed" /\ text \notin {"", info[c]})
    <2>1. PICK w \in Over(info[c]) : text' = w[1] /\ whole' = w[2]
      BY DEF Write
    <2>2. CASE w = <<info[c], TRUE>>
      BY <2>1, <2>2
    <2>3. CASE w = <<"mixed", TRUE>> /\ text \notin {"", info[c]}
      BY <2>1, <2>3
    <2> QED
      BY <2>2, <2>3 DEF Over
  <1>5. /\ (IF Opened = {} THEN text = before ELSE Explained)'
        /\ text' \in Texts
    BY <1>2, <1>3, <1>4, WrittenText
  <1>6. TypeOK'
    BY <1>4, <1>5 DEF PodInv, TypeOK, Steps, Write, Goto, podvars
  <1>7. PartExplained'
    BY <1>4 DEF PartExplained
  <1>8. DoneIsPrivate' /\ \A d \in Commands : end'[d] = "exit 0" => pc'[d] = "chmod"
    BY <1>1, <1>2 DEF PodInv, DoneIsPrivate
  <1> QED
    BY <1>5, <1>6, <1>7, <1>8 DEF PodInv

\* A write that fails leaves what was there, or what it did write.
LEMMA WriteFailsStep == ASSUME PodInv, NEW c \in Commands, WriteFails(c) PROVE PodInv'
  <1>1. \A d \in Commands : end'[d] = IF d = c THEN "exit 1" ELSE end[d]
    BY DEF PodInv, TypeOK, WriteFails, End
  <1>2. info' = info /\ pc[c] = "write" /\ end[c] = "no" /\ pc' = pc /\ mode' = mode
    BY DEF WriteFails, At, End
  <1>3. CASE text' = text /\ whole' = whole
    BY <1>2, <1>3, EndStep DEF WriteFails, filevars, podvars
  <1>4. CASE \E w \in PartOver(info[c]) : text' = w[1] /\ whole' = w[2]
    <2> PICK w \in PartOver(info[c]) : text' = w[1] /\ whole' = w[2]
      BY <1>4
    <2>0. \/ text' = info[c] /\ whole' \in {whole, FALSE}
          \/ text' = "mixed" /\ whole' = TRUE /\ text \notin {"", info[c]}
      <3>1. CASE w = <<info[c], FALSE>>
        BY <3>1
      <3>2. CASE w = <<info[c], whole>>
        BY <3>2
      <3>3. CASE w = <<"mixed", TRUE>> /\ text \notin {"", info[c]}
        BY <3>3
      <3> QED
        BY <3>1, <3>2, <3>3 DEF PartOver
    <2>1. Opened' = Opened
      BY <1>2 DEF Opened
    <2>2. text' = info[c] \/ (text' = "mixed" /\ whole' = TRUE /\ text \notin {"", info[c]})
      BY <2>0
    <2>3. /\ (IF Opened = {} THEN text = before ELSE Explained)'
          /\ text' \in Texts
      BY <1>2, <2>1, <2>2, WrittenText
    <2>4. whole' \in BOOLEAN
      BY <2>0 DEF PodInv, TypeOK
    <2>5. TypeOK'
      BY <2>3, <2>4 DEF PodInv, TypeOK, Ends, WriteFails, End, podvars
    <2>6. PartExplained'
      BY <1>1, <1>2, <2>2 DEF PartExplained, Opened
    <2>7. DoneIsPrivate' /\ \A d \in Commands : end'[d] = "exit 0" => pc'[d] = "chmod"
      BY <1>1, <1>2 DEF PodInv, DoneIsPrivate
    <2> QED
      BY <2>3, <2>5, <2>6, <2>7 DEF PodInv
  <1>5. PICK w \in {<<text, whole>>} \cup PartOver(info[c]) : text' = w[1] /\ whole' = w[2]
    BY DEF WriteFails
  <1>6. CASE w = <<text, whole>>
    BY <1>3, <1>5, <1>6
  <1> QED
    BY <1>4, <1>5, <1>6

LEMMA ChmodStep == ASSUME PodInv, NEW c \in Commands, Chmod(c) PROVE PodInv'
  <1>1. \A d \in Commands : end'[d] = IF d = c THEN "exit 0" ELSE end[d]
    BY DEF PodInv, TypeOK, Chmod, End
  <1>2. TypeOK'
    BY DEF PodInv, TypeOK, Ends, Texts, Modes, Chmod, End, podvars
  <1>3. /\ (IF Opened = {} THEN text = before ELSE Explained)'
        /\ PartExplained'
    <2>1. Opened' = Opened /\ Opened \subseteq Commands
      BY DEF Opened, Chmod, End
    <2>2. end[c] # "exit 1"
      BY DEF Chmod, At
    <2> QED
      BY <1>1, <2>1, <2>2, FileKept DEF Chmod, End
  <1>4. DoneIsPrivate' /\ \A d \in Commands : end'[d] = "exit 0" => pc'[d] = "chmod"
    BY <1>1 DEF PodInv, DoneIsPrivate, Chmod, At, End
  <1> QED
    BY <1>2, <1>3, <1>4 DEF PodInv

LEMMA CommandStep == ASSUME PodInv, NEW c \in Commands, Command(c) PROVE PodInv'
  <1> USE DEF podvars, At
  <1>1. CASE GetSsh(c)
    <2>1. /\ info' \in [Commands -> PrivateKeys \cup {NoKey}]
          /\ \A d \in Commands : d # c => info'[d] = info[d]
      BY <1>1 DEF PodInv, TypeOK, GetSsh
    <2> QED
      BY <1>1, <2>1, EarlyStep DEF GetSsh, Goto
  <1>2. CASE GetPorts(c)
    BY <1>2, EarlyStep DEF PodInv, TypeOK, GetPorts, Goto
  <1>3. CASE GetSshFails(c) \/ GetPortsFails(c) \/ OpenFails(c) \/ ChmodFails(c)
    BY <1>3, EndStep DEF GetSshFails, GetPortsFails, OpenFails, ChmodFails
  <1>4. CASE Kill(c)
    BY <1>4, EndStep DEF Kill
  <1> QED
    BY <1>1, <1>2, <1>3, <1>4, OpenStep, WriteStep, WriteFailsStep, ChmodStep DEF Command

\* A report, or a restart of the control plane, touches neither command nor
\* file.
LEMMA PodStep ==
    ASSUME PodInv, access' \in PrivateKeys \cup {NoKey, "no endpoint"},
           UNCHANGED <<pc, end, info, filevars>>
    PROVE  PodInv'
  <1>1. TypeOK'
    BY DEF PodInv, TypeOK, filevars
  <1>2. /\ (IF Opened = {} THEN text = before ELSE Explained)'
        /\ PartExplained' /\ DoneIsPrivate'
        /\ \A c \in Commands : end'[c] = "exit 0" => pc'[c] = "chmod"
    BY DEF PodInv, Explained, PartExplained, Opened, DoneIsPrivate, filevars
  <1> QED
    BY <1>1, <1>2 DEF PodInv

\* PodInv holds in every reachable state.
THEOREM PodInvariant == Spec => []PodInv
  <1>1. PodInv /\ [Next]_vars => PodInv'
    <2> SUFFICES ASSUME PodInv, [Next]_vars PROVE PodInv'
      OBVIOUS
    <2>1. CASE Report
      <3>1. access' \in PrivateKeys \cup {NoKey, "no endpoint"}
        BY <2>1 DEF Report, PodInv, TypeOK
      <3> QED
        BY <2>1, <3>1, PodStep DEF Report
    <2>2. CASE Restore
      BY <2>2, PodStep DEF Restore, PodInv, TypeOK
    <2>3. CASE \E c \in Commands : Command(c)
      BY <2>3, CommandStep
    <2>4. CASE UNCHANGED vars
      BY <2>4, PodStep DEF vars, filevars, PodInv, TypeOK
    <2> QED
      BY <2>1, <2>2, <2>3, <2>4 DEF Next
  <1> QED
    BY InitPod, <1>1, PTL DEF Spec

\* However many commands write the file at the same time, and wherever one of
\* them fails or is killed: the file is left alone until one has opened it, and
\* what it holds then is a key that was given to one of them, whole unless two
\* were given different ones, a write failed, or it has just been emptied.
THEOREM KeyFileExplained == Spec => []SavedKeyIsGiven
  BY PodInvariant, PodImplies, PTL

\* The file is private from the first command that ends well, for any commands
\* after it; before, a key others can read is one a command is still writing,
\* or one whose write or chmod failed or was not reached.
THEOREM KeyFilePrivate == Spec => []PrivateWhenDone
  BY PodInvariant, PodImplies, PTL

-----------------------------------------------------------------------------
\* The host keys.

\* The values of reports, and those of them that are kept.
Value == [fields : Nat, type : STRING, names : STRING,
          blob : Nat, comment : Nat, short : BOOLEAN]

GoodAt(values, i) == values[i].fields >= 2 /\ _well_formed(values[i])

\* A key has two fields and no comment, and is its own key.
LEMMA KeyIs ==
    ASSUME NEW v \in Value
    PROVE  /\ Key(v) \in Value /\ Key(v).fields = 2 /\ Key(Key(v)) = Key(v)
           /\ _well_formed(Key(v)) <=> _well_formed(v)
  <1>1. /\ Key(v).fields = 2 /\ Key(v).type = v.type /\ Key(v).names = v.names
        /\ Key(v).blob = v.blob /\ Key(v).comment = 0 /\ Key(v).short = v.short
    BY DEF Key, Value
  <1>2. Key(v) \in Value
    <2>1. Key(v) = [[v EXCEPT !.fields = 2] EXCEPT !.comment = 0]
      BY DEF Key
    <2>2. [v EXCEPT !.fields = 2] \in Value
      BY DEF Value
    <2>3. \A w \in Value : [w EXCEPT !.comment = 0] \in Value
      BY DEF Value
    <2> QED
      BY <2>1, <2>2, <2>3
  <1>3. /\ Key(Key(v)).fields = 2 /\ Key(Key(v)).type = v.type /\ Key(Key(v)).names = v.names
        /\ Key(Key(v)).blob = v.blob /\ Key(Key(v)).comment = 0 /\ Key(Key(v)).short = v.short
        /\ Key(Key(v)) \in Value
    <2>1. Key(Key(v)) = [[Key(v) EXCEPT !.fields = 2] EXCEPT !.comment = 0]
      BY DEF Key
    <2> QED
      BY <1>1, <1>2, <2>1 DEF Value
  <1>4. Key(Key(v)) = Key(v)
    BY <1>1, <1>2, <1>3 DEF Value
  <1> QED
    BY <1>1, <1>2, <1>4 DEF _well_formed

\* A value that is added leaves a list of values.
LEMMA AddKeyTyped ==
    ASSUME NEW s \in Seq(Value), NEW v \in Value
    PROVE  AddKey(s, v) \in Seq(Value)
  BY KeyIs DEF AddKey

\* Cleaning goes through the values in their order, one turn of AddKey for each.
LEMMA CleanTurns ==
    ASSUME NEW values \in Seq(Value)
    PROVE  \E out :
              /\ out[0] = <<>>
              /\ \A i \in 1..Len(values) : out[i] = AddKey(out[i - 1], values[i])
              /\ clean_ssh_host_keys(values) = out[Len(values)]
  <1> DEFINE n == Len(values)
             T == Seq(Value)
             turn == [p \in T \X (1..n) |-> AddKey(p[1], values[p[2]])]
             P(h) == h = [S \in SUBSET DOMAIN values |->
                            IF S = {} THEN <<>>
                            ELSE AddKey(h[S \ {Max(S)}], values[Max(S)])]
             H == CHOOSE h : P(h)
  <1>1. n \in Nat /\ DOMAIN values = 1..n /\ <<>> \in T /\ \A i \in 1..n : values[i] \in Value
    OBVIOUS
  <1>2. clean_ssh_host_keys(values) = H[1..n]
    <2>1. clean_ssh_host_keys(values) = H[DOMAIN values]
      BY Zenon DEF clean_ssh_host_keys, FoldLeft, MapThenFoldSet
    <2> QED
      BY <1>1, <2>1
  <1> HIDE DEF H, n, T
  <1>3. turn \in [T \X (1..n) -> T]
    <2> SUFFICES ASSUME NEW p \in T \X (1..n) PROVE AddKey(p[1], values[p[2]]) \in T
      OBVIOUS
    <2> QED
      BY <1>1, AddKeyTyped DEF T
  <1>4. \A s \in T, i \in 1..n : turn[<<s, i>>] = AddKey(s, values[i])
    OBVIOUS
  <1> HIDE DEF turn
  <1>5. PICK h \in [SUBSET (1..n) -> T] : Recurses(h, n, <<>>, turn)
    <2>1. n \in Nat /\ <<>> \in T
      BY <1>1
    <2> QED
      BY <2>1, <1>3, FoldExists, Zenon
  <1>6. ASSUME NEW S \in SUBSET (1..n), S # {}
        PROVE  h[S] = AddKey(h[S \ {Max(S)}], values[Max(S)])
    <2>1. Max(S) \in 1..n /\ S \ {Max(S)} \in SUBSET (1..n)
      BY <1>1, <1>6, MaxIsLast
    <2> QED
      BY <1>4, <1>5, <1>6, <2>1 DEF Recurses
  <1>7. h = [S \in SUBSET (1..n) |->
                IF S = {} THEN <<>> ELSE AddKey(h[S \ {Max(S)}], values[Max(S)])]
    BY <1>5, <1>6 DEF Recurses
  <1>8. P(h)
    BY <1>1, <1>7
  <1>9. P(H)
    BY <1>8 DEF H
  <1> DEFINE out == [i \in 0..n |-> H[1..i]]
  <1>10. H[{}] = <<>>
    BY <1>9
  <1>11. ASSUME NEW i \in 1..n PROVE H[1..i] = AddKey(H[1..(i - 1)], values[i])
    <2>1. 1..i \in SUBSET (1..n) /\ 1..i # {}
      <3>1. i \in 1..i /\ 1..i \subseteq 1..n
        BY <1>1
      <3> QED
        BY <3>1
    <2>2. Max(1..i) = i /\ (1..i) \ {i} = 1..(i - 1)
      BY <1>1, MaxOfTurns
    <2>3. H[1..i] = AddKey(H[(1..i) \ {Max(1..i)}], values[Max(1..i)])
      BY <1>1, <1>9, <2>1
    <2> QED
      BY <2>2, <2>3
  <1>12. \A i \in 1..n : out[i] = AddKey(out[i - 1], values[i])
    BY <1>1, <1>11
  <1>13. out[0] = <<>> /\ out[n] = H[1..n]
    <2>1. 1..0 = {} /\ 0 \in 0..n /\ n \in 0..n
      BY <1>1
    <2> QED
      BY <1>10, <2>1
  <1> HIDE DEF out
  <1> QED
    BY <1>2, <1>12, <1>13 DEF n

\* After i turns: distinct good keys only, and while there is room all of them, each
\* behind those that came before it.
TurnOk(values, s, i) ==
    /\ s \in Seq(Value) /\ Len(s) <= MAX_KEYS
    /\ \A j, k \in 1..Len(s) : s[j] = s[k] => j = k
    /\ Len(s) < MAX_KEYS => \A p \in 1..i : GoodAt(values, p) => Contains(s, Key(values[p]))
    /\ \A j \in 1..Len(s) : \E p \in 1..i :
          /\ GoodAt(values, p) /\ s[j] = Key(values[p])
          /\ \A q \in 1..(p - 1) : GoodAt(values, q) => \E k \in 1..(j - 1) : s[k] = Key(values[q])

\* A turn keeps what the turns before it have reached.
LEMMA TurnStep ==
    ASSUME NEW values \in Seq(Value), NEW i \in 1..Len(values), NEW s, TurnOk(values, s, i - 1)
    PROVE  TurnOk(values, AddKey(s, values[i]), i)
  <1>1. values[i] \in Value /\ i \in Nat /\ 1..(i - 1) \subseteq 1..i /\ MAX_KEYS \in Nat
    BY ValuesAssumption DEF ValuesAssumption
  <1>2. s \in Seq(Value) /\ Len(s) \in Nat
    BY DEF TurnOk
  <1>3. CASE Len(s) >= MAX_KEYS
    <2>1. AddKey(s, values[i]) = s
      BY <1>3 DEF AddKey
    <2>2. ~(Len(s) < MAX_KEYS)
      BY <1>1, <1>2, <1>3
    <2> QED
      BY <1>1, <2>1, <2>2 DEF TurnOk
  <1>4. CASE Len(s) < MAX_KEYS /\ (~GoodAt(values, i) \/ Contains(s, Key(values[i])))
    <2>1. AddKey(s, values[i]) = s
      <3>1. values[i].fields \in Nat
        BY <1>1 DEF Value
      <3> QED
        BY <1>4, <3>1 DEF AddKey, GoodAt
    <2>2. \A p \in 1..i : GoodAt(values, p) => Contains(s, Key(values[p]))
      BY <1>1, <1>4 DEF TurnOk
    <2> QED
      BY <1>1, <2>1, <2>2 DEF TurnOk
  <1>5. CASE Len(s) < MAX_KEYS /\ GoodAt(values, i) /\ ~Contains(s, Key(values[i]))
    <2> DEFINE t == Append(s, Key(values[i]))
    <2>1. AddKey(s, values[i]) = t
      <3>1. values[i].fields \in Nat
        BY <1>1 DEF Value
      <3> QED
        BY <1>1, <1>2, <1>5, <3>1 DEF AddKey, GoodAt
    <2>2. /\ t \in Seq(Value) /\ Len(t) = Len(s) + 1 /\ t[Len(s) + 1] = Key(values[i])
          /\ \A j \in 1..Len(s) : t[j] = s[j]
      BY <1>1, <1>2, KeyIs
    <2> HIDE DEF t
    <2>3. Len(t) <= MAX_KEYS
      BY <1>1, <1>2, <1>5, <2>2
    <2>4. ASSUME NEW j \in 1..Len(t), NEW k \in 1..Len(t), t[j] = t[k] PROVE j = k
      <3>1. \A l \in 1..Len(t) : l = Len(s) + 1 \/ l \in 1..Len(s)
        BY <1>2, <2>2
      <3>2. \A l \in 1..Len(s) : s[l] # Key(values[i])
        BY <1>5 DEF Contains
      <3> QED
        BY <2>2, <2>4, <3>1, <3>2 DEF TurnOk
    <2>5. ASSUME NEW p \in 1..i, GoodAt(values, p) PROVE Contains(t, Key(values[p]))
      <3>1. CASE p = i
        BY <1>2, <2>2, <3>1 DEF Contains
      <3>2. CASE p \in 1..(i - 1)
        <4>1. PICK k \in 1..Len(s) : s[k] = Key(values[p])
          BY <1>5, <2>5, <3>2 DEF TurnOk, Contains
        <4>2. k \in 1..Len(t) /\ t[k] = Key(values[p])
          BY <1>2, <2>2, <4>1
        <4> QED
          BY <4>2 DEF Contains
      <3> QED
        BY <1>1, <3>1, <3>2
    <2>6. ASSUME NEW j \in 1..Len(t)
          PROVE  \E p \in 1..i :
                   /\ GoodAt(values, p) /\ t[j] = Key(values[p])
                   /\ \A q \in 1..(p - 1) : GoodAt(values, q) =>
                         \E k \in 1..(j - 1) : t[k] = Key(values[q])
      <3>1. CASE j = Len(s) + 1
        <4>1. ASSUME NEW q \in 1..(i - 1), GoodAt(values, q)
              PROVE  \E k \in 1..(j - 1) : t[k] = Key(values[q])
          <5>1. PICK k \in 1..Len(s) : s[k] = Key(values[q])
            BY <1>5, <4>1 DEF TurnOk, Contains
          <5> QED
            BY <1>2, <2>2, <3>1, <5>1
        <4>2. i \in 1..i
          BY <1>1
        <4> QED
          BY <1>5, <2>2, <3>1, <4>1, <4>2
      <3>2. CASE j \in 1..Len(s)
        <4>1. PICK p \in 1..(i - 1) :
                 /\ GoodAt(values, p) /\ s[j] = Key(values[p])
                 /\ \A q \in 1..(p - 1) : GoodAt(values, q) =>
                       \E k \in 1..(j - 1) : s[k] = Key(values[q])
          BY <3>2 DEF TurnOk
        <4>2. \A k \in 1..(j - 1) : t[k] = s[k]
          BY <1>2, <2>2, <3>2
        <4>3. \A q \in 1..(p - 1) : GoodAt(values, q) =>
                 \E k \in 1..(j - 1) : t[k] = Key(values[q])
          BY <4>1, <4>2
        <4> QED
          BY <1>1, <2>2, <3>2, <4>1, <4>3
      <3> QED
        BY <1>2, <2>2, <3>1, <3>2
    <2> QED
      BY <2>1, <2>2, <2>3, <2>4, <2>5, <2>6 DEF TurnOk
  <1> QED
    BY <1>1, <1>2, <1>3, <1>4, <1>5

\* So it holds of what comes out in the end.
LEMMA CleanOk ==
    ASSUME NEW values \in Seq(Value)
    PROVE  TurnOk(values, clean_ssh_host_keys(values), Len(values))
  <1>1. PICK out :
           /\ out[0] = <<>>
           /\ \A i \in 1..Len(values) : out[i] = AddKey(out[i - 1], values[i])
           /\ clean_ssh_host_keys(values) = out[Len(values)]
    BY CleanTurns
  <1> DEFINE G == {i \in 0..Len(values) : TurnOk(values, out[i], i)}
  <1>2. TurnOk(values, <<>>, 0)
    BY ValuesAssumption DEF TurnOk, ValuesAssumption
  <1>3. 0 \in G
    BY <1>1, <1>2
  <1>4. ASSUME NEW i \in 1..Len(values), i - 1 \in G PROVE i \in G
    BY <1>1, <1>4, TurnStep
  <1> HIDE DEF G
  <1>5. \A i \in 0..Len(values) : i \in G
    <2>1. Len(values) \in Nat
      OBVIOUS
    <2> QED
      BY <1>3, <1>4, <2>1, AllTurns
  <1> USE DEF G
  <1> QED
    BY <1>1, <1>5

\* Cleaning what is clean changes nothing.
LEMMA CleanAgain ==
    ASSUME NEW values \in Seq(Value)
    PROVE  clean_ssh_host_keys(clean_ssh_host_keys(values)) = clean_ssh_host_keys(values)
  <1> DEFINE s == clean_ssh_host_keys(values)
  <1>1. TurnOk(values, s, Len(values))
    BY CleanOk
  <1> HIDE DEF s
  <1>2. s \in Seq(Value) /\ Len(s) \in Nat /\ Len(s) <= MAX_KEYS /\ MAX_KEYS \in Nat
    BY <1>1, ValuesAssumption DEF TurnOk, ValuesAssumption
  <1>3. ASSUME NEW j \in 1..Len(s)
        PROVE  s[j].fields = 2 /\ _well_formed(s[j]) /\ Key(s[j]) = s[j] /\ s[j] \in Value
    <2>1. PICK p \in 1..Len(values) : GoodAt(values, p) /\ s[j] = Key(values[p])
      BY <1>1 DEF TurnOk
    <2>2. values[p] \in Value
      OBVIOUS
    <2> QED
      BY <2>1, <2>2, KeyIs DEF GoodAt
  <1>4. PICK out :
           /\ out[0] = <<>>
           /\ \A i \in 1..Len(s) : out[i] = AddKey(out[i - 1], s[i])
           /\ clean_ssh_host_keys(s) = out[Len(s)]
    BY <1>2, CleanTurns
  <1> DEFINE Copied(t, i) == t \in Seq(Value) /\ Len(t) = i /\ \A j \in 1..i : t[j] = s[j]
             G == {i \in 0..Len(s) : Copied(out[i], i)}
  <1>5. 0 \in G
    <2>1. 0 \in 0..Len(s) /\ Copied(<<>>, 0)
      BY <1>2
    <2> QED
      BY <1>4, <2>1
  <1>6. ASSUME NEW i \in 1..Len(s), i - 1 \in G PROVE i \in G
    <2>1. out[i - 1] \in Seq(Value) /\ Len(out[i - 1]) = i - 1 /\ \A j \in 1..(i - 1) : out[i - 1][j] = s[j]
      BY <1>6
    <2>2. ~Contains(out[i - 1], s[i])
      <3>1. \A j \in 1..(i - 1) : s[j] # s[i]
        BY <1>1, <1>2 DEF TurnOk
      <3> QED
        BY <2>1, <3>1 DEF Contains
    <2>3. out[i] = Append(out[i - 1], s[i])
      <3>1. out[i] = AddKey(out[i - 1], s[i])
        BY <1>4
      <3>2. ~(Len(out[i - 1]) >= MAX_KEYS) /\ ~(s[i].fields < 2) /\ _well_formed(s[i])
        BY <1>2, <1>3, <2>1
      <3> QED
        BY <1>3, <2>2, <3>1, <3>2 DEF AddKey
    <2>4. Copied(out[i], i)
      BY <1>2, <1>3, <2>1, <2>3
    <2> HIDE DEF Copied
    <2> QED
      BY <2>4
  <1> HIDE DEF G, Copied
  <1>7. Len(s) \in G
    <2>1. \A i \in 0..Len(s) : i \in G
      BY <1>2, <1>5, <1>6, AllTurns
    <2> QED
      BY <1>2, <2>1
  <1> USE DEF G, Copied
  <1>8. out[Len(s)] = s
    BY <1>2, <1>7
  <1> QED
    BY <1>4, <1>8 DEF s

\* The place First chooses is the first of a good value with that key.
LEMMA FirstIs ==
    ASSUME NEW values \in Seq(Value), NEW p \in 1..Len(values), GoodAt(values, p)
    PROVE  LET f == First(values, Key(values[p])) IN
             f \in 1..Len(values) /\ f <= p /\ GoodAt(values, f) /\ Key(values[f]) = Key(values[p])
  <1> DEFINE k == Key(values[p])
             S == {i \in 1..Len(values) : Key(values[i]) = k /\ values[i].fields >= 2}
             IsFirst(i) == /\ Key(values[i]) = k /\ values[i].fields >= 2
                           /\ \A j \in 1..(i - 1) : values[j].fields >= 2 => Key(values[j]) # k
             f == First(values, k)
  <1>1. Len(values) \in Nat /\ DOMAIN values = 1..Len(values)
    OBVIOUS
  <1>2. \A i \in 1..Len(values) : values[i] \in Value
    OBVIOUS
  <1> HIDE DEF k
  <1>3. p \in S /\ S \subseteq Nat
    BY DEF GoodAt, k
  <1>4. PICK m \in S : \A i \in S : m <= i
    BY <1>3, LeastExists
  <1>5. m \in 1..Len(values) /\ IsFirst(m)
    <2>1. ASSUME NEW j \in 1..(m - 1) PROVE j \notin S /\ j \in 1..Len(values)
      BY <1>1, <1>4
    <2> QED
      BY <1>4, <2>1
  <1>6. f \in 1..Len(values) /\ IsFirst(f)
    BY <1>1, <1>5 DEF First
  <1> HIDE DEF f
  <1>7. f <= p
    <2>1. p \notin 1..(f - 1)
      BY <1>3, <1>6
    <2> QED
      BY <1>1, <1>6, <2>1
  <1>8. _well_formed(values[f])
    BY <1>2, <1>6, KeyIs DEF k, GoodAt
  <1> QED
    BY <1>6, <1>7, <1>8 DEF GoodAt, f, k

\* A record that all turns led to is the one RecordIsLastReport asks for.
LEMMA RecordOfReport ==
    ASSUME last \in Seq(Value), TurnOk(last, record, Len(last))
    PROVE  RecordIsLastReport
  <1> DEFINE n == Len(last)
             good == Good(last)
             GoodPlaces == {p \in 1..n : GoodAt(last, p)}
  <1>1. n \in Nat /\ DOMAIN last = 1..n /\ \A p \in 1..n : last[p] \in Value /\ last[p].fields \in Nat
    <2>1. \A v \in Value : v.fields \in Nat
      BY DEF Value
    <2> QED
      BY <2>1
  <1>2. record \in Seq(Value) /\ Len(record) \in Nat /\ DOMAIN record = 1..Len(record)
    BY DEF TurnOk
  <1>3. MAX_KEYS \in Nat
    BY ValuesAssumption DEF ValuesAssumption
  <1> HIDE DEF n
  <1>4. good = {Key(last[p]) : p \in GoodPlaces}
    BY <1>1 DEF Good, GoodAt
  <1>5. \A k \in good : \E p \in 1..n : GoodAt(last, p) /\ Key(last[p]) = k
    BY <1>4
  <1>6. \A p \in 1..n : GoodAt(last, p) => Key(last[p]) \in good
    BY <1>4
  <1> HIDE DEF good, GoodPlaces
  <1>7. ToSet(record) \subseteq good
    BY <1>2, <1>6 DEF ToSet, TurnOk, n
  <1>8. IsInjective(record)
    BY <1>2 DEF IsInjective, TurnOk
  <1>9. Len(record) < MAX_KEYS => good \subseteq ToSet(record)
    <2> SUFFICES ASSUME Len(record) < MAX_KEYS, NEW k \in good PROVE k \in ToSet(record)
      OBVIOUS
    <2>1. PICK p \in 1..n : GoodAt(last, p) /\ Key(last[p]) = k
      BY <1>5
    <2>2. Contains(record, k)
      BY <2>1 DEF TurnOk, n
    <2> QED
      BY <1>2, <2>2 DEF Contains, ToSet
  <1>10. IsFiniteSet(good)
    <2> DEFINE f == [p \in GoodPlaces |-> Key(last[p])]
    <2>1. f \in Surjection(GoodPlaces, good)
      BY <1>4 DEF Surjection
    <2>2. IsFiniteSet(GoodPlaces)
      <3>1. IsFiniteSet(1..n)
        BY <1>1, FS_Interval
      <3>2. GoodPlaces \in SUBSET (1..n)
        BY DEF GoodPlaces
      <3> QED
        BY <3>1, <3>2, FS_Subset
    <2> QED
      BY <2>1, <2>2, FS_Surjection
  <1>11. IsFiniteSet(ToSet(record)) /\ Cardinality(ToSet(record)) = Len(record)
    <2>1. ExistsBijection(1..Len(record), ToSet(record))
      <3>1. record \in Bijection(1..Len(record), ToSet(record))
        BY <1>2, <1>8 DEF Bijection, Injection, Surjection, IsInjective, ToSet
      <3> QED
        BY <3>1 DEF ExistsBijection
    <2> QED
      BY <1>2, <2>1, FS_CountingElements, FS_NatBijection
  <1>12. Len(record) = IF Cardinality(good) < MAX_KEYS THEN Cardinality(good) ELSE MAX_KEYS
    <2>1. Cardinality(good) \in Nat /\ Len(record) <= Cardinality(good)
      BY <1>7, <1>10, <1>11, FS_CardinalityType, FS_Subset
    <2>2. Len(record) <= MAX_KEYS
      BY DEF TurnOk
    <2>3. CASE Len(record) < MAX_KEYS
      <3>1. good = ToSet(record)
        BY <1>7, <1>9, <2>3
      <3> QED
        BY <1>11, <2>3, <3>1
    <2>4. CASE Len(record) = MAX_KEYS
      <3>1. ~(Cardinality(good) < MAX_KEYS)
        BY <1>3, <2>1, <2>4
      <3> QED
        BY <2>4, <3>1
    <2>5. Len(record) < MAX_KEYS \/ Len(record) = MAX_KEYS
      <3>1. \A a, b \in Nat : a <= b => a < b \/ a = b
        OBVIOUS
      <3>2. Len(record) \in Nat
        BY <1>2
      <3> QED
        BY <1>3, <2>2, <3>1, <3>2
    <2> QED
      BY <2>3, <2>4, <2>5
  <1>13. ASSUME NEW i \in DOMAIN record, NEW k \in good, First(last, k) < First(last, record[i])
         PROVE  \E j \in 1..(i - 1) : record[j] = k
    <2>1. PICK p \in 1..n :
             /\ GoodAt(last, p) /\ record[i] = Key(last[p])
             /\ \A q \in 1..(p - 1) : GoodAt(last, q) => \E j \in 1..(i - 1) : record[j] = Key(last[q])
      BY <1>2 DEF TurnOk, n
    <2>2. First(last, record[i]) \in 1..n /\ First(last, record[i]) <= p
      BY <1>1, <2>1, FirstIs DEF n
    <2>3. PICK q \in 1..n : GoodAt(last, q) /\ Key(last[q]) = k
      BY <1>5
    <2>4. First(last, k) \in 1..n /\ GoodAt(last, First(last, k)) /\ Key(last[First(last, k)]) = k
      BY <1>1, <2>3, FirstIs DEF n
    <2>5. First(last, k) \in 1..(p - 1)
      BY <1>1, <1>13, <2>2, <2>4
    <2> QED
      BY <2>1, <2>4, <2>5
  <1> QED
    BY <1>7, <1>8, <1>12, <1>13 DEF RecordIsLastReport, good

-----------------------------------------------------------------------------
\* The record has been cleaned, and is that of the last report with keys.
KeysInv == last \in Seq(Value) /\ record = clean_ssh_host_keys(last)

\* The empty record is clean.
LEMMA InitKeys == HKInit => KeysInv
  <1> SUFFICES ASSUME HKInit PROVE KeysInv
    OBVIOUS
  <1>1. <<>> \in Seq(Value) /\ Len(<<>>) = 0
    OBVIOUS
  <1>2. clean_ssh_host_keys(<<>>) = <<>>
    BY <1>1, CleanTurns
  <1> QED
    BY <1>1, <1>2 DEF HKInit, KeysInv

\* A report replaces both or neither; a restart cleans the record again.
LEMMA KeysStep == ASSUME KeysInv, (\E r \in Reports : Apply(r)) \/ Reload \/ UNCHANGED hkvars PROVE KeysInv'
  <1>1. ASSUME NEW r \in Reports, Apply(r) PROVE KeysInv'
    <2>1. CASE r = None
      BY <1>1, <2>1 DEF Apply, UpdateKeys, KeysInv
    <2>2. CASE r # None
      <3>1. PICK m \in 0..MaxValues : \E values \in [1..m -> Values] : r = Some(values)
        BY <2>2 DEF Reports
      <3> PICK values \in [1..m -> Values] : r = Some(values)
        BY <3>1
      <3>2. Values \subseteq Value
        BY ValuesAssumption DEF ValuesAssumption, Value
      <3>3. values \in Seq(Value)
        BY <3>1, <3>2
      <3>4. UpdateKeys(r) = Some(clean_ssh_host_keys(values))
        BY <2>2, <3>1 DEF UpdateKeys, Some
      <3>5. Some(clean_ssh_host_keys(values)) # None
        BY DEF Some, None
      <3>6. record' = clean_ssh_host_keys(clean_ssh_host_keys(values)) /\ last' = values
        BY <1>1, <3>4, <3>5 DEF Apply, Some
      <3> QED
        BY <3>3, <3>6, CleanAgain DEF KeysInv
    <2> QED
      BY <2>1, <2>2
  <1>2. CASE Reload
    BY <1>2, CleanAgain DEF Reload, KeysInv
  <1>3. CASE UNCHANGED hkvars
    BY <1>3 DEF hkvars, KeysInv
  <1> QED
    BY <1>1, <1>2, <1>3

\* KeysInv holds in every reachable state.
THEOREM KeysInvariant == Spec => []KeysInv
  <1>1. Init => KeysInv
    BY InitKeys DEF Init
  <1>2. KeysInv /\ [Next]_vars => KeysInv'
    <2> SUFFICES ASSUME KeysInv, [Next]_vars PROVE KeysInv'
      OBVIOUS
    <2>1. CASE Report
      BY <2>1, KeysStep DEF Report
    <2>2. CASE Restore
      BY <2>2, KeysStep DEF Restore
    <2>3. ASSUME NEW c \in Commands, Command(c) PROVE UNCHANGED hkvars
      BY <2>3 DEF Command, GetSsh, GetSshFails, GetPorts, GetPortsFails, Open, OpenFails,
                  Write, WriteFails, Chmod, ChmodFails, Kill, podvars
    <2>4. CASE UNCHANGED vars
      BY <2>4, KeysStep DEF vars
    <2> QED
      BY <2>1, <2>2, <2>3, <2>4, KeysStep DEF Next
  <1> QED
    BY <1>1, <1>2, PTL DEF Spec

\* Whatever a machine reports, and however often it is cleaned: the record has
\* the first MAX_KEYS distinct good keys of the last report with keys.
THEOREM RecordIsReported == Spec => []RecordIsLastReport
  <1>1. KeysInv => RecordIsLastReport
    BY CleanOk, RecordOfReport DEF KeysInv
  <1> QED
    BY <1>1, KeysInvariant, PTL

=============================================================================
