--------------------------- MODULE ConfigFileProofs --------------------------
(***************************************************************************)
(* Theorems about ConfigFile, for any number of processes and of updates,  *)
(* any URLs and keys, and any environment.                                 *)
(***************************************************************************)
EXTENDS ConfigFile, TLAPS

-----------------------------------------------------------------------------
\* The inductive invariant.

PCs == {"idle", "truncate", "write", "reload"}
Texts == [base : Bases, key : Keys, tail : {"none"}]
Args == SaveArgs \cup UnsetArgs

\* Neither value is a single percent sign.
SignFree(t) == One \notin {t.base, t.key}

\* Types; what is about to be written can be stored, so the file never holds a
\* single percent sign; and a key that was asked for is the one to be written.
Typed ==
    /\ file \in [base : Bases, key : Keys, tail : Tails] \cup {NoText}
    /\ SignFree(file)
    /\ pc \in [Procs -> PCs] /\ alone \in [Procs -> BOOLEAN]
    /\ request \in [Procs -> Args \cup {[base |-> NoArg, key |-> NoArg]}]
    /\ DOMAIN text = Procs /\ DOMAIN result = Procs
    /\ \A p \in Procs : pc[p] \in {"truncate", "write"} =>
          /\ text[p] \in Texts /\ SignFree(text[p])
          /\ request[p].key # NoArg => text[p].key = request[p].key

\* Process p is the only one with an update in progress: nobody has written
\* since it truncated, or else since it wrote.
Undisturbed(p) ==
    /\ \A q \in Procs : q # p => ~Active(q)
    /\ pc[p] = "write" => file = NoText
    /\ pc[p] = "reload" /\ request[p].key # NoArg => file.key = request[p].key

AloneIsAlone == \A p \in Procs : Active(p) /\ alone[p] => Undisturbed(p)

\* Until two updates overlap, what an update is about to write is made of what
\* is stored.
Apart == ~collided => \A p \in Procs :
    /\ Active(p) => Undisturbed(p)
    /\ pc[p] = "truncate" =>
          /\ Accepted(load_file_config(file), request[p])
          /\ text[p] = Updated(load_file_config(file), request[p])

Readable == file.tail = "broken" => collided

Gone(k) == k \in {"", "garbled"}
KeyGone == removed => /\ Gone(file.key)
                      /\ \A p \in Procs : pc[p] \in {"truncate", "write"} => Gone(text[p].key)

ConfigInv == Typed /\ AloneIsAlone /\ Apart /\ Readable /\ KeyGone

-----------------------------------------------------------------------------
\* Values.

LEMMA BasesStripped == \A b \in Bases : Stripped(b) = b /\ b # "" /\ b # "raised"
<1> SUFFICES ASSUME NEW b \in Bases PROVE Stripped(b) = b /\ b # "" /\ b # "raised"
  OBVIOUS
<1>1. CASE b \in {DefaultUrl, Two, One}
  BY <1>1 DEF DefaultUrl, Stripped, Two, One
<1>2. ASSUME NEW x \in BaseArgs \ {NoArg, ""}, b = Stripped(x)
      PROVE  Stripped(b) = b /\ b # "" /\ b # "raised"
  BY <1>2, RaisedAssumption DEF Stripped, Two
<1> QED
  BY <1>1, <1>2 DEF Bases

LEMMA StrippedIsBase ==
    ASSUME NEW b \in BaseArgs \cup {DefaultUrl}, b \notin {NoArg, ""}
    PROVE  Stripped(b) \in Bases
<1>1. Stripped(DefaultUrl) = DefaultUrl
  BY DEF Stripped, DefaultUrl
<1> QED
  BY <1>1 DEF Bases

LEMMA InterpolatedTypes ==
    /\ \A k \in Keys : Interpolated(k) \in Keys
    /\ \A b \in Bases : Interpolated(b) \in Bases
  BY DEF Interpolated, Keys, Bases

LEMMA RecordTypes ==
    \A b \in Bases, k \in Keys : /\ [base |-> b, key |-> k] \in [base : Bases, key : Keys]
                               /\ [base |-> b, key |-> k, tail |-> "none"] \in Texts
  BY DEF Texts

\* What is loaded of a file is what can be updated.
LEMMA LoadedType ==
    ASSUME NEW f \in [base : Bases, key : Keys, tail : Tails] \cup {NoText}
    PROVE  /\ load_file_config(f) = Raised \/ load_file_config(f) \in [base : Bases, key : Keys]
           /\ Loads(f) => load_file_config(f) # Raised
           /\ ~Loads(f) => load_file_config(f) = Raised
<1>1. ~Loads(f) => load_file_config(f) = Raised
  BY DEF load_file_config
<1>2. ASSUME Loads(f)
      PROVE  load_file_config(f) \in [base : Bases, key : Keys]
  <2>1. CASE f = NoText
    <3>1. load_file_config(f) = [base |-> DefaultUrl, key |-> ""]
      BY <1>2, <2>1 DEF load_file_config, Defaults
    <3>2. DefaultUrl \in Bases /\ "" \in Keys
      BY DEF Bases, Keys
    <3> QED
      BY <3>1, <3>2, RecordTypes
  <2>2. CASE f # NoText
    <3>1. f.base \in Bases /\ f.key \in Keys
      BY <2>2
    <3>2. load_file_config(f)
            = [base |-> Stripped(Interpolated(f.base)),
               key |-> IF f.tail = "garbled" THEN "garbled" ELSE Interpolated(f.key)]
      BY <1>2, <2>2 DEF load_file_config
    <3>3. "garbled" \in Keys /\ Interpolated(f.key) \in Keys /\ Stripped(Interpolated(f.base)) \in Bases
      BY <3>1, InterpolatedTypes, BasesStripped DEF Keys
    <3> QED
      BY <3>1, <3>2, <3>3
  <2> QED
    BY <2>1, <2>2
<1>3. Raised \notin [base : Bases, key : Keys]
  BY BasesStripped DEF Raised
<1> QED
  BY <1>1, <1>2, <1>3

\* An accepted update composes a text.
LEMMA UpdatedType ==
    ASSUME NEW c \in [base : Bases, key : Keys], NEW r \in Args
    PROVE  /\ Updated(c, r) \in Texts
           /\ Updated(c, r).key = IF r.key # NoArg THEN r.key ELSE c.key
           /\ Updated(c, r).base = IF r.base \notin {NoArg, ""} THEN Stripped(r.base) ELSE c.base
<1>1. r.base \in BaseArgs \cup {NoArg, DefaultUrl} /\ r.key \in KeyArgs \cup {NoArg, ""}
  BY DEF Args, SaveArgs, UnsetArgs
<1>2. c.base \in Bases /\ c.key \in Keys /\ Stripped(c.base) = c.base
  BY BasesStripped
<1>3. r.base \notin {NoArg, ""} => Stripped(r.base) \in Bases
  BY <1>1, StrippedIsBase
<1>4. (IF r.key # NoArg THEN r.key ELSE c.key) \in Keys
  BY <1>1, <1>2 DEF Keys
<1>5. Updated(c, r) = [base |-> IF r.base \notin {NoArg, ""} THEN Stripped(r.base) ELSE c.base,
                       key |-> IF r.key # NoArg THEN r.key ELSE c.key,
                       tail |-> "none"]
  BY <1>2 DEF Updated
<1>6. (IF r.base \notin {NoArg, ""} THEN Stripped(r.base) ELSE c.base) \in Bases
  BY <1>2, <1>3
<1> DEFINE B == IF r.base \notin {NoArg, ""} THEN Stripped(r.base) ELSE c.base
           K == IF r.key # NoArg THEN r.key ELSE c.key
<1>7. Updated(c, r) = [base |-> B, key |-> K, tail |-> "none"] /\ B \in Bases /\ K \in Keys
  BY <1>4, <1>5, <1>6
<1> SUFFICES Updated(c, r) \in Texts /\ Updated(c, r).key = K /\ Updated(c, r).base = B
  OBVIOUS
<1> HIDE DEF B, K
<1> QED
  BY <1>7, RecordTypes

LEMMA LengthType ==
    ASSUME NEW t \in Texts
    PROVE  Length(NoText) <= Length(t)
<1>1. Length(NoText) = 0
  BY DEF Length
<1>2. Length(t) = Width[t.base] + Width[t.key] \/ Length(t) = 0
  BY DEF Length
<1>3. t.base \in Bases \cup Keys /\ t.key \in Bases \cup Keys
  BY DEF Texts
<1>4. Width[t.base] \in Nat /\ Width[t.key] \in Nat
  BY <1>3, WidthAssumption
<1> QED
  BY <1>1, <1>2, <1>4

-----------------------------------------------------------------------------
\* The steps.

\* Only a process with an update in progress touches the file: while it is
\* undisturbed, no other one can.
LEMMA BeginFacts ==
    ASSUME Typed, NEW p \in Procs, NEW r \in Args, Begin(p, r)
    PROVE  /\ pc[p] = "idle"
           /\ request' = [request EXCEPT ![p] = r]
           /\ file' = file /\ settings' = settings
           /\ \/ /\ Accepted(load_file_config(file), r)
                 /\ text' = [text EXCEPT ![p] = Updated(load_file_config(file), r)]
                 /\ pc' = [pc EXCEPT ![p] = "truncate"]
                 /\ result' = [result EXCEPT ![p] = NoResult]
              \/ /\ ~Accepted(load_file_config(file), r)
                 /\ result' = [result EXCEPT ![p] = Raised]
                 /\ UNCHANGED <<pc, text>>
           /\ alone'[p] <=> \A q \in Procs : q # p => ~Active(q)
           /\ \A q \in Procs : q # p => alone'[q] = IF Active(q) THEN FALSE ELSE alone[q]
           /\ collided' <=> collided \/ \E q \in Procs : q # p /\ Active(q)
           /\ alone' \in [Procs -> BOOLEAN]
           /\ removed' <=> removed /\ r.key \in {NoArg, ""}
<1>1. pc[p] = "idle"
  BY DEF Begin, Active
<1> DEFINE others == {q \in Procs \ {p} : Active(q)}
<1>2. /\ alone' = [q \in Procs |-> IF q = p THEN others = {}
                                   ELSE IF q \in others THEN FALSE ELSE alone[q]]
      /\ collided' = (collided \/ others # {})
      /\ removed' = (removed /\ r.key \in {NoArg, ""})
      /\ request' = [request EXCEPT ![p] = r]
      /\ file' = file /\ settings' = settings
  BY DEF Begin
<1>3. others = {} <=> \A q \in Procs : q # p => ~Active(q)
  OBVIOUS
<1>4. \A q \in Procs : q # p => (q \in others <=> Active(q))
  OBVIOUS
<1>5. \/ /\ Accepted(load_file_config(file), r)
         /\ text' = [text EXCEPT ![p] = Updated(load_file_config(file), r)]
         /\ pc' = [pc EXCEPT ![p] = "truncate"]
         /\ result' = [result EXCEPT ![p] = NoResult]
      \/ /\ ~Accepted(load_file_config(file), r)
         /\ result' = [result EXCEPT ![p] = Raised]
         /\ UNCHANGED <<pc, text>>
  BY DEF Begin
<1> HIDE DEF others
<1>6. alone'[p] = (others = {})
  BY <1>2
<1>7. alone' \in [Procs -> BOOLEAN]
  <2>1. \A q \in Procs : alone[q] \in BOOLEAN
    BY DEF Typed
  <2> QED
    BY <1>2, <2>1
<1>8. \A q \in Procs : q # p => alone'[q] = IF Active(q) THEN FALSE ELSE alone[q]
  BY <1>2, <1>4
<1>9. collided' <=> collided \/ \E q \in Procs : q # p /\ Active(q)
  BY <1>2, <1>3
<1> QED
  BY <1>1, <1>2, <1>3, <1>5, <1>6, <1>7, <1>8, <1>9

LEMMA BeginStep ==
    ASSUME ConfigInv, NEW p \in Procs, NEW r \in Args, Begin(p, r)
    PROVE  ConfigInv'
<1>1. Typed /\ AloneIsAlone /\ Apart /\ Readable /\ KeyGone
  BY DEF ConfigInv
<1> DEFINE cur == load_file_config(file)
           new == Updated(cur, r)
<1>2. /\ pc[p] = "idle" /\ file' = file
      /\ request' = [request EXCEPT ![p] = r]
      /\ \/ /\ Accepted(cur, r)
            /\ text' = [text EXCEPT ![p] = new]
            /\ pc' = [pc EXCEPT ![p] = "truncate"]
            /\ result' = [result EXCEPT ![p] = NoResult]
         \/ /\ ~Accepted(cur, r)
            /\ result' = [result EXCEPT ![p] = Raised]
            /\ UNCHANGED <<pc, text>>
      /\ alone'[p] <=> \A q \in Procs : q # p => ~Active(q)
      /\ \A q \in Procs : q # p => alone'[q] = IF Active(q) THEN FALSE ELSE alone[q]
      /\ collided' <=> collided \/ \E q \in Procs : q # p /\ Active(q)
      /\ alone' \in [Procs -> BOOLEAN]
      /\ removed' <=> removed /\ r.key \in {NoArg, ""}
  BY <1>1, BeginFacts
<1>3. /\ request'[p] = r /\ \A q \in Procs : q # p => request'[q] = request[q]
      /\ request' \in [Procs -> Args \cup {[base |-> NoArg, key |-> NoArg]}]
  BY <1>1, <1>2 DEF Typed
<1>4. \A q \in Procs : q # p => pc'[q] = pc[q] /\ text'[q] = text[q]
  BY <1>1, <1>2 DEF Typed
<1>5. pc'[p] = "idle" \/ (/\ pc'[p] = "truncate" /\ Accepted(cur, r) /\ text'[p] = new)
  BY <1>1, <1>2 DEF Typed
<1>6. Accepted(cur, r) =>
        /\ new \in Texts /\ SignFree(new)
        /\ new.key = IF r.key # NoArg THEN r.key ELSE cur.key
        /\ cur \in [base : Bases, key : Keys]
  <2>1. cur = Raised \/ cur \in [base : Bases, key : Keys]
    BY <1>1, LoadedType DEF Typed
  <2>2. SUFFICES ASSUME Accepted(cur, r)
                 PROVE  /\ new \in Texts /\ SignFree(new)
                        /\ new.key = IF r.key # NoArg THEN r.key ELSE cur.key
                        /\ cur \in [base : Bases, key : Keys]
    OBVIOUS
  <2>3. cur # Raised /\ SignFree(new)
    BY <2>2 DEF Accepted, Storable, SignFree
  <2> QED
    BY <2>1, <2>3, UpdatedType
<1>7. pc' \in [Procs -> PCs] /\ DOMAIN text' = Procs /\ DOMAIN result' = Procs
  BY <1>1, <1>2 DEF Typed, PCs
<1> HIDE DEF new
<1>8. Typed'
  <2>1. \A q \in Procs : pc'[q] \in {"truncate", "write"} =>
          /\ text'[q] \in Texts /\ SignFree(text'[q])
          /\ request'[q].key # NoArg => text'[q].key = request'[q].key
    BY <1>1, <1>3, <1>4, <1>5, <1>6 DEF Typed
  <2> QED
    BY <1>1, <1>2, <1>3, <1>7, <2>1 DEF Typed
<1>9. \A q \in Procs : q # p => (Active(q)' <=> Active(q))
  BY <1>4 DEF Active
<1>10. ASSUME \A q \in Procs : q # p => ~Active(q)
       PROVE  Undisturbed(p)'
  BY <1>5, <1>9, <1>10 DEF Undisturbed, Active
<1>11. AloneIsAlone'
  <2> SUFFICES ASSUME NEW q \in Procs, Active(q)', alone'[q] PROVE Undisturbed(q)'
    BY DEF AloneIsAlone, Active, Undisturbed
  <2>1. CASE q = p
    BY <1>2, <1>10, <2>1
  <2>2. CASE q # p
    BY <1>2, <1>9, <2>2
  <2> QED
    BY <2>1, <2>2
<1>12. Apart'
  <2> SUFFICES ASSUME ~collided', NEW q \in Procs
               PROVE  /\ Active(q)' => Undisturbed(q)'
                      /\ pc'[q] = "truncate" =>
                            /\ Accepted(load_file_config(file'), request'[q])
                            /\ text'[q] = Updated(load_file_config(file'), request'[q])
    BY DEF Apart, Active, Undisturbed, Accepted, Updated, load_file_config, Loads, Storable
  <2>1. \A x \in Procs : x # p => ~Active(x)
    BY <1>2
  <2>2. CASE q = p
    BY <1>2, <1>3, <1>5, <1>10, <2>1, <2>2 DEF new
  <2>3. CASE q # p
    BY <1>4, <1>9, <2>1, <2>3 DEF Active
  <2> QED
    BY <2>2, <2>3
<1>13. Readable'
  BY <1>1, <1>2 DEF Readable
<1>14. KeyGone'
  <2> SUFFICES ASSUME removed'
               PROVE  /\ Gone(file'.key)
                      /\ \A q \in Procs : pc'[q] \in {"truncate", "write"} => Gone(text'[q].key)
    BY DEF KeyGone, Gone
  <2>1. removed /\ r.key \in {NoArg, ""}
    BY <1>2
  <2>2. Gone(file.key)
    BY <1>1, <2>1 DEF KeyGone
  <2>3. Loads(file) => Gone(cur.key)
    BY <2>2 DEF load_file_config, Gone, Interpolated, Defaults, Four, Two
  <2>4. Accepted(cur, r) => Gone(cur.key)
    <3>1. ~Loads(file) => cur = Raised
      BY DEF load_file_config
    <3> QED
      BY <2>3, <3>1 DEF Accepted
  <2>5. pc'[p] \in {"truncate", "write"} => Gone(text'[p].key)
    BY <1>5, <1>6, <2>1, <2>4 DEF Gone
  <2> QED
    BY <1>1, <1>2, <1>4, <2>1, <2>2, <2>5 DEF KeyGone
<1> QED
  BY <1>8, <1>11, <1>12, <1>13, <1>14 DEF ConfigInv

\* A process that acts has an update in progress, so no other one is undisturbed.
LEMMA TruncateStep ==
    ASSUME ConfigInv, NEW p \in Procs, Truncate(p)
    PROVE  ConfigInv'
<1>1. Typed /\ AloneIsAlone /\ Apart /\ Readable /\ KeyGone
  BY DEF ConfigInv
<1>2. /\ pc[p] = "truncate" /\ pc' = [pc EXCEPT ![p] = "write"] /\ file' = NoText
      /\ UNCHANGED <<request, text, result, settings, begun, alone, collided, removed>>
  BY DEF Truncate
<1>3. /\ pc'[p] = "write" /\ \A q \in Procs : q # p => pc'[q] = pc[q]
      /\ pc' \in [Procs -> PCs]
  BY <1>1, <1>2 DEF Typed, PCs
<1>4. file'.key = "" /\ file'.tail = "none" /\ SignFree(file')
  BY <1>2 DEF NoText, One, SignFree
<1>5. Typed'
  BY <1>1, <1>2, <1>3, <1>4 DEF Typed
<1>6. \A q \in Procs : Active(q)' <=> Active(q)
  BY <1>2, <1>3 DEF Active
<1>7. Undisturbed(p) => Undisturbed(p)'
  BY <1>2, <1>3, <1>6 DEF Undisturbed
<1>8. \A q \in Procs : q # p /\ Active(q) => ~Undisturbed(q)
  BY <1>2 DEF Undisturbed, Active
<1>9. AloneIsAlone'
  BY <1>1, <1>2, <1>6, <1>7, <1>8 DEF AloneIsAlone
<1>10. Apart'
  <2> SUFFICES ASSUME ~collided', NEW q \in Procs
               PROVE  /\ Active(q)' => Undisturbed(q)'
                      /\ pc'[q] = "truncate" =>
                            /\ Accepted(load_file_config(file'), request'[q])
                            /\ text'[q] = Updated(load_file_config(file'), request'[q])
    BY DEF Apart, Active, Undisturbed, Accepted, Updated, load_file_config, Loads, Storable
  <2>1. Active(q) => Undisturbed(q) /\ q = p
    BY <1>1, <1>2, <1>8 DEF Apart
  <2> QED
    BY <1>3, <1>6, <1>7, <2>1 DEF Active
<1>11. Readable'
  BY <1>4 DEF Readable
<1>12. KeyGone'
  BY <1>1, <1>2, <1>3, <1>4 DEF KeyGone, Gone
<1> QED
  BY <1>5, <1>9, <1>10, <1>11, <1>12 DEF ConfigInv

LEMMA WriteStep ==
    ASSUME ConfigInv, NEW p \in Procs, Write(p)
    PROVE  ConfigInv'
<1>1. Typed /\ AloneIsAlone /\ Apart /\ Readable /\ KeyGone
  BY DEF ConfigInv
<1>2. /\ pc[p] = "write" /\ pc' = [pc EXCEPT ![p] = "reload"]
      /\ text' = [text EXCEPT ![p] = NoText]
      /\ UNCHANGED <<request, result, settings, begun, alone, collided, removed>>
  BY DEF Write
<1>3. PICK t \in Tails : /\ Length(file) <= Length(text[p]) => t = "none"
                         /\ file' = [text[p] EXCEPT !.tail = t]
  BY DEF Write
<1>4. /\ text[p] \in Texts /\ SignFree(text[p])
      /\ request[p].key # NoArg => text[p].key = request[p].key
  BY <1>1, <1>2 DEF Typed
<1>5. /\ file' \in [base : Bases, key : Keys, tail : Tails]
      /\ file'.key = text[p].key /\ file'.tail = t /\ SignFree(file')
  BY <1>3, <1>4 DEF Texts, SignFree
<1>6. /\ pc'[p] = "reload" /\ \A q \in Procs : q # p => pc'[q] = pc[q] /\ text'[q] = text[q]
      /\ pc' \in [Procs -> PCs] /\ DOMAIN text' = Procs
  BY <1>1, <1>2 DEF Typed, PCs
<1>7. Typed'
  <2>1. \A q \in Procs : pc'[q] \in {"truncate", "write"} =>
          /\ text'[q] \in Texts /\ SignFree(text'[q])
          /\ request'[q].key # NoArg => text'[q].key = request'[q].key
    BY <1>1, <1>2, <1>6 DEF Typed
  <2> QED
    BY <1>1, <1>2, <1>4, <1>5, <1>6, <2>1 DEF Typed
<1>8. \A q \in Procs : Active(q)' <=> Active(q)
  BY <1>2, <1>6 DEF Active
<1>9. Undisturbed(p) => Undisturbed(p)' /\ t = "none"
  <2>1. Undisturbed(p) => t = "none"
    BY <1>2, <1>3, <1>4, LengthType DEF Undisturbed
  <2>2. Undisturbed(p) => Undisturbed(p)'
    BY <1>2, <1>4, <1>5, <1>6, <1>8 DEF Undisturbed
  <2> QED
    BY <2>1, <2>2
<1>10. \A q \in Procs : q # p /\ Active(q) => ~Undisturbed(q)
  BY <1>2 DEF Undisturbed, Active
<1>11. AloneIsAlone'
  BY <1>1, <1>2, <1>8, <1>9, <1>10 DEF AloneIsAlone
<1>12. Active(p)
  BY <1>2 DEF Active
<1>13. Apart'
  <2> SUFFICES ASSUME ~collided', NEW q \in Procs
               PROVE  /\ Active(q)' => Undisturbed(q)'
                      /\ pc'[q] = "truncate" =>
                            /\ Accepted(load_file_config(file'), request'[q])
                            /\ text'[q] = Updated(load_file_config(file'), request'[q])
    BY DEF Apart, Active, Undisturbed, Accepted, Updated, load_file_config, Loads, Storable
  <2>1. Active(q) => Undisturbed(q) /\ q = p
    BY <1>1, <1>2, <1>10 DEF Apart
  <2> QED
    BY <1>6, <1>8, <1>9, <2>1 DEF Active
<1>14. Readable'
  BY <1>1, <1>2, <1>5, <1>9, <1>12 DEF Readable, Apart
<1>15. KeyGone'
  BY <1>1, <1>2, <1>5, <1>6 DEF KeyGone, Gone
<1> QED
  BY <1>7, <1>11, <1>13, <1>14, <1>15 DEF ConfigInv

LEMMA ReloadStep ==
    ASSUME ConfigInv, NEW p \in Procs, Reload(p)
    PROVE  ConfigInv'
<1>1. Typed /\ AloneIsAlone /\ Apart /\ Readable /\ KeyGone
  BY DEF ConfigInv
<1>2. /\ pc[p] = "reload" /\ pc' = [pc EXCEPT ![p] = "idle"]
      /\ result' = [result EXCEPT ![p] = load_file_config(file)]
      /\ removed' = (removed \/ (request[p].key = "" /\ alone[p]))
      /\ UNCHANGED <<file, request, text, settings, begun, alone, collided>>
  BY DEF Reload
<1>3. /\ pc'[p] = "idle" /\ \A q \in Procs : q # p => pc'[q] = pc[q]
      /\ pc' \in [Procs -> PCs] /\ DOMAIN result' = Procs
  BY <1>1, <1>2 DEF Typed, PCs
<1>4. Typed'
  BY <1>1, <1>2, <1>3 DEF Typed
<1>5. \A q \in Procs : q # p => (Active(q)' <=> Active(q))
  BY <1>3 DEF Active
<1>6. ~Active(p)' /\ Active(p)
  BY <1>2, <1>3 DEF Active
<1>7. \A q \in Procs : q # p /\ Active(q) => ~Undisturbed(q)
  BY <1>6 DEF Undisturbed
<1>8. AloneIsAlone'
  BY <1>1, <1>2, <1>5, <1>6, <1>7 DEF AloneIsAlone
<1>9. Apart'
  <2> SUFFICES ASSUME ~collided', NEW q \in Procs
               PROVE  /\ Active(q)' => Undisturbed(q)'
                      /\ pc'[q] = "truncate" =>
                            /\ Accepted(load_file_config(file'), request'[q])
                            /\ text'[q] = Updated(load_file_config(file'), request'[q])
    BY DEF Apart, Active, Undisturbed, Accepted, Updated, load_file_config, Loads, Storable
  <2>1. Active(q) => q = p
    BY <1>1, <1>2, <1>7 DEF Apart
  <2> QED
    BY <1>3, <1>5, <1>6, <2>1 DEF Active
<1>10. Readable'
  BY <1>1, <1>2 DEF Readable
<1>11. KeyGone'
  <2>1. CASE removed
    BY <1>1, <1>2, <1>3, <2>1 DEF KeyGone
  <2>2. CASE request[p].key = "" /\ alone[p]
    <3>1. Undisturbed(p)
      BY <1>1, <1>6, <2>2 DEF AloneIsAlone
    <3>2. file.key = ""
      BY <1>2, <2>2, <3>1 DEF Undisturbed, NoArg
    <3>3. \A q \in Procs : pc'[q] = "idle"
      BY <1>3, <3>1 DEF Undisturbed, Active
    <3> QED
      BY <1>2, <3>2, <3>3 DEF KeyGone, Gone
  <2>3. CASE ~removed'
    BY <2>3 DEF KeyGone
  <2> QED
    BY <1>2, <2>1, <2>2, <2>3
<1> QED
  BY <1>4, <1>8, <1>9, <1>10, <1>11 DEF ConfigInv

LEMMA CrashStep ==
    ASSUME ConfigInv, NEW p \in Procs, Crash(p)
    PROVE  ConfigInv'
<1>1. Typed /\ AloneIsAlone /\ Apart /\ Readable /\ KeyGone
  BY DEF ConfigInv
<1>2. /\ Active(p) /\ pc' = [pc EXCEPT ![p] = "idle"]
      /\ text' = [text EXCEPT ![p] = NoText]
      /\ UNCHANGED <<file, request, result, settings, begun, alone, collided, removed>>
  BY DEF Crash
<1>3. /\ pc'[p] = "idle" /\ \A q \in Procs : q # p => pc'[q] = pc[q] /\ text'[q] = text[q]
      /\ pc' \in [Procs -> PCs] /\ DOMAIN text' = Procs
  BY <1>1, <1>2 DEF Typed, PCs
<1>4. Typed'
  <2>1. \A q \in Procs : pc'[q] \in {"truncate", "write"} =>
          /\ text'[q] \in Texts /\ SignFree(text'[q])
          /\ request'[q].key # NoArg => text'[q].key = request'[q].key
    BY <1>1, <1>2, <1>3 DEF Typed
  <2> QED
    BY <1>1, <1>2, <1>3, <2>1 DEF Typed
<1>5. \A q \in Procs : q # p => (Active(q)' <=> Active(q))
  BY <1>3 DEF Active
<1>6. ~Active(p)'
  BY <1>3 DEF Active
<1>7. \A q \in Procs : q # p /\ Active(q) => ~Undisturbed(q)
  BY <1>2 DEF Undisturbed
<1>8. AloneIsAlone'
  BY <1>1, <1>2, <1>5, <1>6, <1>7 DEF AloneIsAlone
<1>9. Apart'
  <2> SUFFICES ASSUME ~collided', NEW q \in Procs
               PROVE  /\ Active(q)' => Undisturbed(q)'
                      /\ pc'[q] = "truncate" =>
                            /\ Accepted(load_file_config(file'), request'[q])
                            /\ text'[q] = Updated(load_file_config(file'), request'[q])
    BY DEF Apart, Active, Undisturbed, Accepted, Updated, load_file_config, Loads, Storable
  <2>1. Active(q) => q = p
    BY <1>1, <1>2, <1>7 DEF Apart
  <2> QED
    BY <1>3, <1>5, <1>6, <2>1 DEF Active
<1>10. Readable'
  BY <1>1, <1>2 DEF Readable
<1>11. KeyGone'
  BY <1>1, <1>2, <1>3 DEF KeyGone
<1> QED
  BY <1>4, <1>8, <1>9, <1>10, <1>11 DEF ConfigInv

LEMMA ConfigInit == Init => ConfigInv
<1> SUFFICES ASSUME Init PROVE ConfigInv
  OBVIOUS
<1>1. /\ pc = [p \in Procs |-> "idle"]
      /\ request = [p \in Procs |-> [base |-> NoArg, key |-> NoArg]]
      /\ text = [p \in Procs |-> NoText] /\ result = [p \in Procs |-> NoResult]
      /\ alone = [p \in Procs |-> TRUE] /\ removed = FALSE
  BY DEF Init
<1>2. /\ file \in [base : Bases, key : Keys, tail : Tails] \cup {NoText}
      /\ SignFree(file) /\ file.tail = "none"
  <2>1. DefaultUrl \in Bases /\ {"", "k1"} \subseteq Keys /\ "none" \in Tails
    BY DEF Bases, Keys, Tails
  <2>2. file = NoText \/ \E k \in {"", "k1"} : file = [base |-> DefaultUrl, key |-> k, tail |-> "none"]
    BY DEF Init
  <2>3. CASE file = NoText
    BY <2>3 DEF NoText, One, SignFree
  <2>4. ASSUME NEW k \in {"", "k1"}, file = [base |-> DefaultUrl, key |-> k, tail |-> "none"]
        PROVE  /\ file \in [base : Bases, key : Keys, tail : Tails]
               /\ SignFree(file) /\ file.tail = "none"
    <3>1. file.base = DefaultUrl /\ file.key = k /\ file.tail = "none"
      BY <2>4
    <3>2. SignFree(file)
      BY <3>1 DEF One, DefaultUrl, SignFree
    <3>3. k \in Keys
      BY <2>1
    <3> QED
      BY <2>1, <2>4, <3>1, <3>2, <3>3
  <2> QED
    BY <2>2, <2>3, <2>4
<1>3. Typed
  <2>1. pc \in [Procs -> PCs] /\ alone \in [Procs -> BOOLEAN]
    BY <1>1 DEF PCs
  <2>2. request \in [Procs -> Args \cup {[base |-> NoArg, key |-> NoArg]}]
    BY <1>1
  <2>3. DOMAIN text = Procs /\ DOMAIN result = Procs
    BY <1>1
  <2>4. \A p \in Procs : pc[p] = "idle"
    BY <1>1
  <2> QED
    BY <1>2, <2>1, <2>2, <2>3, <2>4 DEF Typed
<1>4. AloneIsAlone /\ Apart /\ Readable /\ KeyGone
  BY <1>1, <1>2 DEF AloneIsAlone, Apart, Readable, KeyGone, Active
<1> QED
  BY <1>3, <1>4 DEF ConfigInv

LEMMA ConfigStep == ConfigInv /\ [Next]_vars => ConfigInv'
<1> SUFFICES ASSUME ConfigInv, [Next]_vars PROVE ConfigInv'
  OBVIOUS
<1>1. ASSUME NEW p \in Procs, NEW r \in SaveArgs \cup UnsetArgs, Begin(p, r) PROVE ConfigInv'
  BY <1>1, BeginStep DEF Args
<1>2. ASSUME NEW p \in Procs, Truncate(p) PROVE ConfigInv'
  BY <1>2, TruncateStep
<1>3. ASSUME NEW p \in Procs, Write(p) PROVE ConfigInv'
  BY <1>3, WriteStep
<1>4. ASSUME NEW p \in Procs, Reload(p) PROVE ConfigInv'
  BY <1>4, ReloadStep
<1>5. ASSUME NEW p \in Procs, Crash(p) PROVE ConfigInv'
  BY <1>5, CrashStep
<1>6. CASE UNCHANGED <<file, pc, request, text, result, begun, alone, collided, removed>>
  BY <1>6 DEF ConfigInv, Typed, AloneIsAlone, Apart, Readable, KeyGone, Undisturbed, Active
<1>7. ASSUME NEW fl \in Flags, NEW e \in Envs, Command(fl, e) PROVE ConfigInv'
  BY <1>6, <1>7 DEF Command
<1>8. CASE UNCHANGED vars
  BY <1>6, <1>8 DEF vars
<1> QED
  BY <1>1, <1>2, <1>3, <1>4, <1>5, <1>7, <1>8 DEF Next

\* ConfigInv holds in every reachable state: until updates overlap, what a
\* process is about to write is composed of what the file has, and a file that
\* is broken to the parser, or that has a removed key again, met with an overlap.
THEOREM ConfigInvariant == Spec => []ConfigInv
  BY ConfigInit, ConfigStep, PTL DEF Spec

\* The file can be read unless two updates overlapped, or a URL or a key was set
\* that the parser takes for a reference.
THEOREM ReadableOrExplained == Spec => []UnreadableHasCause
<1>1. ConfigInv => UnreadableHasCause
  BY DEF ConfigInv, Typed, SignFree, Readable, UnreadableHasCause, Loads
<1> QED
  BY <1>1, ConfigInvariant, PTL

\* A key that was unset while no other update ran does not come back, however
\* many updates of other settings and kills follow.
THEOREM RemovedKeyIsGone == Spec => []RemovedKeyStaysAway
<1>1. ConfigInv => RemovedKeyStaysAway
  BY DEF ConfigInv, KeyGone, Gone, RemovedKeyStaysAway
<1> QED
  BY <1>1, ConfigInvariant, PTL

-----------------------------------------------------------------------------
\* The register that the file implements, and what the mapping makes of a step.

RegOf(f, c, t) == IF \E p \in Procs : c[p] = "write"
                  THEN load_file_config(t[CHOOSE p \in Procs : c[p] = "write"])
                  ELSE load_file_config(f)
Reg == RegOf(file, pc, text)

StatusOf(l) == CASE l = "idle" -> "idle"
                 [] l = "truncate" -> "begun"
                 [] l \in {"write", "reload"} -> "applied"
Status == [p \in Procs |-> StatusOf(pc[p])]

LEMMA StatusArms ==
    /\ StatusOf("idle") = "idle" /\ StatusOf("truncate") = "begun"
    /\ StatusOf("write") = "applied" /\ StatusOf("reload") = "applied"
<1>1. StatusOf("idle") = "idle"
  BY DEF StatusOf
<1>2. StatusOf("truncate") = "begun"
  BY DEF StatusOf
<1>3. StatusOf("write") = "applied"
  BY DEF StatusOf
<1>4. StatusOf("reload") = "applied"
  BY DEF StatusOf
<1> QED
  BY <1>1, <1>2, <1>3, <1>4

LEMMA RegIsWritten ==
    ASSUME NEW f, NEW c, NEW t, NEW p \in Procs, c[p] = "write",
           \A q \in Procs : c[q] = "write" => q = p
    PROVE  RegOf(f, c, t) = load_file_config(t[p])
<1>1. (CHOOSE q \in Procs : c[q] = "write") = p
  OBVIOUS
<1> QED
  BY <1>1 DEF RegOf

LEMMA RegIsStored ==
    ASSUME NEW f, NEW c, NEW t, \A q \in Procs : c[q] # "write"
    PROVE  RegOf(f, c, t) = load_file_config(f)
  BY DEF RegOf

LEMMA AsRefuse ==
    ASSUME NEW p \in Procs, NEW u, Status[p] = "idle", Refused(Reg, u),
           request' = [request EXCEPT ![p] = u], result' = [result EXCEPT ![p] = Raised],
           Reg' = Reg, Status' = Status, settings' = settings
    PROVE  Register!Refuse(p, u)
  BY DEF Register!Refuse, Reg, RegOf, Status, StatusOf

LEMMA AsBegin ==
    ASSUME NEW p \in Procs, NEW u, Status[p] = "idle", ~Refused(Reg, u),
           Status' = [Status EXCEPT ![p] = "begun"],
           request' = [request EXCEPT ![p] = u], result' = [result EXCEPT ![p] = NoResult],
           Reg' = Reg, settings' = settings
    PROVE  Register!Begin(p, u)
  BY DEF Register!Begin, Reg, RegOf, Status, StatusOf

LEMMA AsApply ==
    ASSUME NEW p \in Procs, Status[p] = "begun", Status' = [Status EXCEPT ![p] = "applied"],
           Reg' = Applied(Reg, request[p]), UNCHANGED <<request, result, settings>>
    PROVE  Register!Apply(p)
  BY DEF Register!Apply, Reg, RegOf, Status, StatusOf

LEMMA AsFinish ==
    ASSUME NEW p \in Procs, Status[p] = "applied", Status' = [Status EXCEPT ![p] = "idle"],
           result' = [result EXCEPT ![p] = Reg], Reg' = Reg, UNCHANGED <<request, settings>>
    PROVE  Register!Finish(p)
  BY DEF Register!Finish, Reg, RegOf, Status, StatusOf

LEMMA AsDie ==
    ASSUME NEW p \in Procs, Status[p] # "idle", Status' = [Status EXCEPT ![p] = "idle"],
           Reg' = Reg \/ (Status[p] = "applied" /\ Reg' = Defaults),
           UNCHANGED <<request, result, settings>>
    PROVE  Register!Die(p)
  BY DEF Register!Die, Reg, RegOf, Status, StatusOf

LEMMA AsRead ==
    ASSUME NEW x \in Flags \X Envs,
           \/ settings' = FirstSet(x, Reg)
           \/ settings' = FirstSet(x, Defaults) /\ \E p \in Procs : Status[p] = "applied",
           Reg' = Reg, Status' = Status, UNCHANGED <<request, result>>
    PROVE  Register!Read
  BY DEF Register!Read, Reg, RegOf, Status, StatusOf

LEMMA AsStutter ==
    ASSUME Reg' = Reg, Status' = Status, UNCHANGED <<request, result, settings>>
    PROVE  UNCHANGED Register!crvars
  BY DEF Register!crvars, Reg, RegOf, Status, StatusOf

-----------------------------------------------------------------------------
\* What the operators of the two specifications make of the same values.

LEMMA RefusedIsNotAccepted ==
    ASSUME NEW c, NEW r \in Args, c = Raised \/ c \in [base : Bases, key : Keys]
    PROVE  Refused(c, r) <=> ~Accepted(c, r)
<1>1. CASE c = Raised
  BY <1>1 DEF Refused, Accepted
<1>2. CASE c # Raised
  <2>1. Updated(c, r).key = NewKey(c, r) /\ Updated(c, r).base = NewBase(c, r)
    BY <1>2, UpdatedType DEF NewKey, NewBase
  <2>2. Accepted(c, r) <=> Updated(c, r).base # One /\ Updated(c, r).key # One
    BY <1>2 DEF Accepted, Storable
  <2>3. Refused(c, r) <=> One \in {NewBase(c, r), NewKey(c, r)}
    BY <1>2 DEF Refused
  <2> QED
    BY <2>1, <2>2, <2>3
<1> QED
  BY <1>1, <1>2

\* What an update writes is read back as the register applies it.
LEMMA AppliedIsUpdated ==
    ASSUME NEW c \in [base : Bases, key : Keys], NEW r \in Args, Accepted(c, r)
    PROVE  load_file_config(Updated(c, r)) = Applied(c, r)
<1> DEFINE B == NewBase(c, r)
           K == NewKey(c, r)
           u == Updated(c, r)
<1>1. u \in Texts /\ u.key = K /\ u.base = B
  BY UpdatedType DEF NewBase, NewKey
<1>2. u.key # One /\ u.base # One
  BY DEF Accepted, Storable
<1>3. u.tail = "none" /\ u.base \in Bases
  BY <1>1 DEF Texts
<1>4. u # NoText
  <2>1. u.base # ""
    BY <1>3, BasesStripped
  <2>2. NoText.base = ""
    BY DEF NoText
  <2> QED
    BY <2>1, <2>2
<1>5. Loads(u) <=> Reference \notin {B, K}
  BY <1>1, <1>2, <1>3 DEF Loads
<1>6. Applied(c, r) = IF Reference \in {B, K} THEN Raised
                      ELSE [base |-> Interpolated(B), key |-> Interpolated(K)]
  BY DEF Applied
<1> HIDE DEF B, K, u
<1>7. load_file_config(u) = IF Reference \in {B, K} THEN Raised
                            ELSE [base |-> Interpolated(B), key |-> Interpolated(K)]
  <2>1. CASE Reference \in {B, K}
    BY <1>5, <2>1 DEF load_file_config
  <2>2. CASE Reference \notin {B, K}
    <3>1. load_file_config(u) = [base |-> Stripped(Interpolated(u.base)), key |-> Interpolated(u.key)]
      BY <1>3, <1>4, <1>5, <2>2 DEF load_file_config
    <3>2. Stripped(Interpolated(u.base)) = Interpolated(u.base)
      BY <1>3, InterpolatedTypes, BasesStripped
    <3> QED
      BY <1>1, <2>2, <3>1, <3>2
  <2> QED
    BY <2>1, <2>2
<1> QED
  BY <1>6, <1>7 DEF u

\* The two resolvers, one in front of the other, make one choice.
LEMMA ClientIsFirstSet ==
    ASSUME NEW fl \in Flags, NEW e \in Envs, NEW c \in [base : Bases, key : Keys]
    PROVE  _client(fl, e, get_config(e, c)) = FirstSet(<<fl, e>>, c)
<1> DEFINE g == get_config(e, c)
           B == CASE fl.base \notin {NoArg, ""} -> Stripped(fl.base)
                  [] fl.base \in {NoArg, ""} /\ e.base # NoArg -> Stripped(e.base)
                  [] OTHER -> c.base
           K == CASE fl.key \notin {NoArg, ""} -> fl.key
                  [] fl.key \in {NoArg, ""} /\ e.key \notin {NoArg, ""} -> e.key
                  [] OTHER -> c.key
<1>1. c # Raised /\ Stripped(c.base) = c.base
  <2>1. c.base \in Bases
    OBVIOUS
  <2>2. Stripped(c.base) = c.base /\ c.base # "raised"
    BY <2>1, BasesStripped
  <2>3. Raised.base = "raised"
    BY DEF Raised
  <2> QED
    BY <2>2, <2>3
<1>2. FirstSet(<<fl, e>>, c) = [base |-> B, key |-> K]
  BY <1>1 DEF FirstSet
<1>3. /\ g.base = Stripped(IF e.base # NoArg THEN e.base ELSE c.base)
      /\ g.key = FirstOf(e.key, c.key)
  BY DEF get_config
<1>4. Stripped(FirstOf(fl.base, FirstOf(e.base, g.base))) = B
  <2>1. CASE fl.base \notin {NoArg, ""}
    BY <2>1 DEF FirstOf
  <2>2. CASE fl.base \in {NoArg, ""} /\ e.base \notin {NoArg, ""}
    BY <2>2 DEF FirstOf
  <2>3. CASE fl.base \in {NoArg, ""} /\ e.base = ""
    <3>1. Stripped("") = "" /\ "" # NoArg
      BY DEF Stripped, NoArg
    <3>2. g.base = ""
      BY <1>3, <2>3, <3>1
    <3>3. B = ""
      BY <2>3, <3>1
    <3> QED
      BY <2>3, <3>1, <3>2, <3>3 DEF FirstOf
  <2>4. CASE fl.base \in {NoArg, ""} /\ e.base = NoArg
    <3>1. g.base = c.base
      BY <1>1, <1>3, <2>4
    <3>2. B = c.base
      BY <2>4
    <3> QED
      BY <1>1, <2>4, <3>1, <3>2 DEF FirstOf
  <2> QED
    BY <2>1, <2>2, <2>3, <2>4
<1>5. FirstOf(fl.key, FirstOf(e.key, g.key)) = K
  BY <1>3 DEF FirstOf
<1> HIDE DEF g, B, K
<1>6. _client(fl, e, g) = [base |-> B, key |-> K]
  BY <1>4, <1>5 DEF _client
<1> QED
  BY <1>2, <1>6 DEF g

LEMMA NothingStored == load_file_config(NoText) = Defaults /\ Defaults \in [base : Bases, key : Keys]
<1>1. Loads(NoText)
  BY DEF Loads, NoText, Reference, One
<1>2. DefaultUrl \in Bases /\ "" \in Keys
  BY DEF Bases, Keys
<1> QED
  BY <1>1, <1>2 DEF load_file_config, Defaults

-----------------------------------------------------------------------------
\* Every step of the file is a step of the register, or a stutter.

\* The update of an undisturbed process is the only one.
LEMMA OnlyOne ==
    ASSUME NEW p \in Procs, Undisturbed(p)
    PROVE  \A q \in Procs : q # p => pc[q] = "idle"
  BY DEF Undisturbed, Active

LEMMA BeginRefines ==
    ASSUME ConfigInv, NEW p \in Procs, NEW r \in Args, Begin(p, r), ~collided'
    PROVE  Register!Begin(p, request'[p]) \/ Register!Refuse(p, request'[p])
<1> DEFINE cur == load_file_config(file)
<1>1. Typed
  BY DEF ConfigInv
<1>2. /\ pc[p] = "idle" /\ file' = file /\ settings' = settings
      /\ request' = [request EXCEPT ![p] = r]
      /\ \/ /\ Accepted(cur, r)
            /\ pc' = [pc EXCEPT ![p] = "truncate"]
            /\ result' = [result EXCEPT ![p] = NoResult]
         \/ /\ ~Accepted(cur, r)
            /\ result' = [result EXCEPT ![p] = Raised]
            /\ UNCHANGED pc
      /\ \A q \in Procs : q # p => ~Active(q)
  BY <1>1, BeginFacts
<1>3. \A q \in Procs : pc[q] # "write" /\ pc'[q] # "write"
  BY <1>1, <1>2 DEF Typed, Active
<1>4. Reg = cur /\ Reg' = cur
  <2>1. Reg = cur
    BY <1>3, RegIsStored DEF Reg
  <2>2. RegOf(file', pc', text') = load_file_config(file')
    BY <1>3, RegIsStored
  <2> QED
    BY <1>2, <2>1, <2>2 DEF Reg
<1>5. request'[p] = r
  BY <1>1, <1>2 DEF Typed
<1>6. Refused(Reg, r) <=> ~Accepted(cur, r)
  <2>1. cur = Raised \/ cur \in [base : Bases, key : Keys]
    BY <1>1, LoadedType DEF Typed
  <2> HIDE DEF cur
  <2> QED
    BY <1>4, <2>1, RefusedIsNotAccepted
<1>7. Status[p] = "idle"
  BY <1>2, StatusArms DEF Status
<1>8. CASE Accepted(cur, r)
  <2>1. Status' = [Status EXCEPT ![p] = "begun"]
    BY <1>1, <1>2, <1>8, StatusArms DEF Status, Typed
  <2> QED
    <3>1. result' = [result EXCEPT ![p] = NoResult] /\ ~Refused(Reg, r) /\ Reg' = Reg
      BY <1>2, <1>4, <1>6, <1>8
    <3>2. Register!Begin(p, r)
      BY <1>2, <1>7, <2>1, <3>1, AsBegin
    <3> QED
      BY <1>5, <3>2 DEF Register!Begin
<1>9. CASE ~Accepted(cur, r)
  <2>1. Status' = Status
    BY <1>2, <1>9 DEF Status
  <2> QED
    <3>1. result' = [result EXCEPT ![p] = Raised] /\ Refused(Reg, r) /\ Reg' = Reg
      BY <1>2, <1>4, <1>6, <1>9
    <3>2. Register!Refuse(p, r)
      BY <1>2, <1>7, <2>1, <3>1, AsRefuse
    <3> QED
      BY <1>5, <3>2
<1> QED
  BY <1>8, <1>9

LEMMA TruncateRefines ==
    ASSUME ConfigInv, NEW p \in Procs, Truncate(p), ~collided'
    PROVE  Register!Apply(p)
<1> DEFINE cur == load_file_config(file)
<1>1. Typed
  BY DEF ConfigInv
<1>2. /\ pc[p] = "truncate" /\ pc' = [pc EXCEPT ![p] = "write"]
      /\ UNCHANGED <<request, text, result, settings, collided>>
  BY DEF Truncate
<1>3. /\ Undisturbed(p) /\ Accepted(cur, request[p])
      /\ text[p] = Updated(cur, request[p])
  BY <1>2 DEF ConfigInv, Apart, Active
<1>4. \A q \in Procs : q # p => pc[q] = "idle" /\ pc'[q] = "idle"
  BY <1>1, <1>2, <1>3, OnlyOne DEF Typed
<1>5. pc'[p] = "write"
  BY <1>1, <1>2 DEF Typed
<1>6. Reg = cur
  BY <1>2, <1>4, RegIsStored DEF Reg
<1>7. Reg' = load_file_config(text[p])
  <2>1. RegOf(file', pc', text') = load_file_config(text'[p])
    BY <1>4, <1>5, RegIsWritten
  <2> QED
    BY <1>2, <2>1 DEF Reg
<1>8. request[p] \in Args /\ cur \in [base : Bases, key : Keys]
  <2>1. cur # Raised
    BY <1>3 DEF Accepted
  <2>2. cur \in [base : Bases, key : Keys]
    BY <1>1, <2>1, LoadedType DEF Typed
  <2>3. [base |-> NoArg, key |-> NoArg] \in Args
    BY DEF Args, UnsetArgs
  <2> QED
    BY <1>1, <2>2, <2>3 DEF Typed
<1> HIDE DEF cur
<1>9. load_file_config(text[p]) = Applied(cur, request[p])
  BY <1>3, <1>8, AppliedIsUpdated
<1>10. Status[p] = "begun" /\ Status' = [Status EXCEPT ![p] = "applied"]
  BY <1>1, <1>2, StatusArms DEF Status, Typed
<1> QED
  BY <1>2, <1>6, <1>7, <1>9, <1>10, AsApply

LEMMA WriteRefines ==
    ASSUME ConfigInv, NEW p \in Procs, Write(p), ~collided'
    PROVE  UNCHANGED Register!crvars
<1>1. Typed
  BY DEF ConfigInv
<1>2. /\ pc[p] = "write" /\ pc' = [pc EXCEPT ![p] = "reload"]
      /\ UNCHANGED <<request, result, settings, collided>>
  BY DEF Write
<1>3. PICK t \in Tails : /\ Length(file) <= Length(text[p]) => t = "none"
                         /\ file' = [text[p] EXCEPT !.tail = t]
  BY DEF Write
<1>4. Undisturbed(p) /\ file = NoText
  BY <1>2 DEF ConfigInv, Apart, Active, Undisturbed
<1>5. text[p] \in Texts
  BY <1>1, <1>2 DEF Typed
<1>6. t = "none"
  BY <1>3, <1>4, <1>5, LengthType
<1>7. file' = text[p]
  BY <1>3, <1>5, <1>6 DEF Texts
<1>8. \A q \in Procs : q # p => pc[q] = "idle" /\ pc'[q] = "idle"
  BY <1>1, <1>2, <1>4, OnlyOne DEF Typed
<1>9. pc'[p] = "reload"
  BY <1>1, <1>2 DEF Typed
<1>10. Reg' = Reg
  <2>1. Reg = load_file_config(text[p])
    BY <1>2, <1>8, RegIsWritten DEF Reg
  <2>2. RegOf(file', pc', text') = load_file_config(file')
    BY <1>8, <1>9, RegIsStored
  <2> QED
    BY <1>7, <2>1, <2>2 DEF Reg
<1>11. Status' = Status
  BY <1>1, <1>2, StatusArms DEF Status, Typed
<1> QED
  BY <1>2, <1>10, <1>11, AsStutter

LEMMA ReloadRefines ==
    ASSUME ConfigInv, NEW p \in Procs, Reload(p), ~collided'
    PROVE  Register!Finish(p)
<1>1. Typed
  BY DEF ConfigInv
<1>2. /\ pc[p] = "reload" /\ pc' = [pc EXCEPT ![p] = "idle"]
      /\ result' = [result EXCEPT ![p] = load_file_config(file)]
      /\ UNCHANGED <<file, request, settings, collided>>
  BY DEF Reload
<1>3. Undisturbed(p)
  BY <1>2 DEF ConfigInv, Apart, Active
<1>4. \A q \in Procs : pc[q] # "write" /\ pc'[q] # "write"
  BY <1>1, <1>2, <1>3, OnlyOne DEF Typed
<1>5. Reg = load_file_config(file) /\ Reg' = Reg
  <2>1. Reg = load_file_config(file)
    BY <1>4, RegIsStored DEF Reg
  <2>2. RegOf(file', pc', text') = load_file_config(file')
    BY <1>4, RegIsStored
  <2> QED
    BY <1>2, <2>1, <2>2 DEF Reg
<1>6. Status[p] = "applied" /\ Status' = [Status EXCEPT ![p] = "idle"]
  BY <1>1, <1>2, StatusArms DEF Status, Typed
<1> QED
  BY <1>2, <1>5, <1>6, AsFinish

LEMMA CrashRefines ==
    ASSUME ConfigInv, NEW p \in Procs, Crash(p), ~collided'
    PROVE  Register!Die(p)
<1>1. Typed
  BY DEF ConfigInv
<1>2. /\ Active(p) /\ pc' = [pc EXCEPT ![p] = "idle"]
      /\ UNCHANGED <<file, request, result, settings, collided>>
  BY DEF Crash
<1>3. Undisturbed(p)
  BY <1>2 DEF ConfigInv, Apart
<1>4. \A q \in Procs : pc'[q] # "write"
  BY <1>1, <1>2, <1>3, OnlyOne DEF Typed
<1>5. Reg' = load_file_config(file)
  <2>1. RegOf(file', pc', text') = load_file_config(file')
    BY <1>4, RegIsStored
  <2> QED
    BY <1>2, <2>1 DEF Reg
<1>6. Reg' = Reg \/ (Status[p] = "applied" /\ Reg' = Defaults)
  <2>1. CASE pc[p] = "write"
    BY <1>3, <1>5, <2>1, NothingStored, StatusArms DEF Undisturbed, Status
  <2>2. CASE pc[p] # "write"
    <3>1. \A q \in Procs : pc[q] # "write"
      BY <1>3, <2>2, OnlyOne
    <3> QED
      BY <1>5, <3>1, RegIsStored DEF Reg
  <2> QED
    BY <2>1, <2>2
<1>7. Status[p] # "idle"
  BY <1>1, <1>2, StatusArms DEF Status, Typed, PCs, Active
<1>8. Status' = [Status EXCEPT ![p] = "idle"]
  BY <1>1, <1>2, StatusArms DEF Status, Typed
<1> QED
  BY <1>2, <1>6, <1>7, <1>8, AsDie

LEMMA CommandRefines ==
    ASSUME ConfigInv, NEW fl \in Flags, NEW e \in Envs, Command(fl, e), ~collided'
    PROVE  Register!Read
<1> DEFINE x == <<fl, e>>
           cur == load_file_config(file)
<1>1. Typed
  BY DEF ConfigInv
<1>2. /\ settings' = IF Loads(file) THEN _client(fl, e, get_config(e, cur)) ELSE Raised
      /\ UNCHANGED <<file, pc, request, text, result, collided>>
  BY DEF Command
<1>3. x \in Flags \X Envs
  OBVIOUS
<1>4. Reg' = Reg /\ Status' = Status
  BY <1>2 DEF Reg, Status
<1>5. settings' = FirstSet(x, cur)
  <2>1. CASE Loads(file)
    <3>1. cur \in [base : Bases, key : Keys]
      BY <1>1, <2>1, LoadedType DEF Typed
    <3> HIDE DEF cur
    <3>2. settings' = _client(fl, e, get_config(e, cur))
      BY <1>2, <2>1
    <3> QED
      BY <3>1, <3>2, ClientIsFirstSet
  <2>2. CASE ~Loads(file)
    <3>1. cur = Raised
      BY <2>2 DEF load_file_config
    <3> HIDE DEF cur
    <3> QED
      BY <1>2, <2>2, <3>1 DEF FirstSet
  <2> QED
    BY <2>1, <2>2
<1>6. \/ cur = Reg
      \/ cur = Defaults /\ \E p \in Procs : Status[p] = "applied"
  <2>1. CASE \A q \in Procs : pc[q] # "write"
    BY <2>1, RegIsStored DEF Reg
  <2>2. ASSUME NEW q \in Procs, pc[q] = "write"
        PROVE  cur = Defaults /\ Status[q] = "applied"
    <3>1. file = NoText
      BY <1>2, <2>2 DEF ConfigInv, Apart, Active, Undisturbed
    <3> QED
      BY <2>2, <3>1, NothingStored, StatusArms DEF Status
  <2> QED
    BY <2>1, <2>2
<1> HIDE DEF cur, x
<1>7. \/ settings' = FirstSet(x, Reg)
      \/ settings' = FirstSet(x, Defaults) /\ \E p \in Procs : Status[p] = "applied"
  BY <1>5, <1>6
<1> QED
  BY <1>2, <1>3, <1>4, <1>7, AsRead

LEMMA NextRefines ==
    ConfigInv /\ [Next]_vars => [~collided' => Register!CRNext]_(Register!crvars)
<1> SUFFICES ASSUME ConfigInv, [Next]_vars, ~collided'
             PROVE  Register!CRNext \/ UNCHANGED Register!crvars
  OBVIOUS
<1>1. ASSUME NEW p \in Procs, NEW r \in SaveArgs \cup UnsetArgs, Begin(p, r)
      PROVE  Register!CRNext
  BY <1>1, BeginRefines DEF Args, Register!CRNext
<1>2. ASSUME NEW p \in Procs, Truncate(p) PROVE Register!CRNext
  BY <1>2, TruncateRefines DEF Register!CRNext
<1>3. ASSUME NEW p \in Procs, Write(p) PROVE UNCHANGED Register!crvars
  BY <1>3, WriteRefines
<1>4. ASSUME NEW p \in Procs, Reload(p) PROVE Register!CRNext
  BY <1>4, ReloadRefines DEF Register!CRNext
<1>5. ASSUME NEW p \in Procs, Crash(p) PROVE Register!CRNext
  BY <1>5, CrashRefines DEF Register!CRNext
<1>6. ASSUME NEW fl \in Flags, NEW e \in Envs, Command(fl, e) PROVE Register!CRNext
  BY <1>6, CommandRefines DEF Register!CRNext
<1>7. CASE UNCHANGED vars
  <2>1. UNCHANGED <<file, pc, request, text, result, settings>>
    BY <1>7 DEF vars
  <2>2. Reg' = Reg /\ Status' = Status
    BY <2>1 DEF Reg, Status
  <2> QED
    BY <2>1, <2>2, AsStutter
<1> QED
  BY <1>1, <1>2, <1>3, <1>4, <1>5, <1>6, <1>7 DEF Next

LEMMA InitRefines == Init => Register!CRInit
<1> SUFFICES ASSUME Init PROVE Register!CRInit
  OBVIOUS
<1>1. pc = [p \in Procs |-> "idle"] /\ result = [p \in Procs |-> NoResult] /\ settings = NoResult
  BY DEF Init
<1>2. Status = [p \in Procs |-> "idle"]
  BY <1>1, StatusArms DEF Status
<1> QED
  BY <1>1, <1>2 DEF Register!CRInit, Status, StatusOf

\* As long as updates do not overlap, the file with its four-step updates, its
\* kills and the two resolvers in front of it is a ConfigRegister.
THEOREM FileKeepsRegister == Spec => ImplementsRegister
  BY InitRefines, NextRefines, ConfigInvariant, PTL DEF Spec, ImplementsRegister

=============================================================================
