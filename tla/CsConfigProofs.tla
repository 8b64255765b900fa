---------------------------- MODULE CsConfigProofs ----------------------------
(* Proofs about the start-up configuration model CsConfig: the settings of *)
(* <state-file> and <event-filter> reach the plugin that encloses them.    *)
EXTENDS CsConfig, SequenceTheorems, TLAPS

(* A frame of csXmlParser's stack: the element's tag and the attributes   *)
(* and tag data the handlers read back.                                    *)
StackRec == [tag : Tags, name : Names \cup {NoName}, data : Names \cup {NoPlugin}]

(* The tag data csMainXmlParser::ParseElementOpen set on a <plugin> frame  *)
(* still names the plugin registered from the file being parsed, under the *)
(* name of that element.  Between two files (file = NoFile) the stack is   *)
(* stale, and ReadEntry resets it before the next parse.                   *)
StackTagged ==
    file # NoFile =>
        \A k \in 1..Len(stack) :
            stack[k].data # NoPlugin =>
                /\ stack[k].data \in plugins
                /\ declaredIn[stack[k].data] = file
                /\ stack[k].data = stack[k].name

IInv == TypeOK /\ StackTagged /\ SettingsToOwnPlugin

-----------------------------------------------------------------------------
(* The pop before ParseElementClose keeps the frames below the top.        *)
LEMMA FrontProps ==
    ASSUME NEW S, NEW s \in Seq(S)
    PROVE  /\ Front(s) \in Seq(S)
           /\ Len(Front(s)) = IF s = << >> THEN 0 ELSE Len(s) - 1
           /\ \A k \in 1..Len(Front(s)) : k \in 1..Len(s) /\ Front(s)[k] = s[k]
<1> DEFINE fr == SubSeq(s, 1, Len(s) - 1)
<1>1. \A i \in 1..Len(s) - 1 : s[i] \in S BY ElementOfSeq
<1>2. /\ fr \in Seq(S)
      /\ Len(fr) = IF 1 <= Len(s) - 1 THEN Len(s) - 1 ELSE 0
      /\ \A i \in 1..Len(s) - 1 : fr[i] = s[1 + i - 1]
  BY <1>1, SubSeqProperties
<1>3. Front(s) = fr BY DEF Front
<1> HIDE DEF fr
<1>4. Len(s) \in Nat /\ (s = << >> <=> Len(s) = 0) BY EmptySeq, LenProperties
<1>5. Len(fr) = IF s = << >> THEN 0 ELSE Len(s) - 1 BY <1>2, <1>4
<1>6. \A k \in 1..Len(fr) : k \in 1..Len(s) /\ fr[k] = s[k] BY <1>2, <1>4, <1>5
<1>7. QED BY <1>2, <1>3, <1>5, <1>6

(* The item under the parser's cursor is an item of the document.          *)
LEMMA CurItem ==
    ASSUME TypeOK, Parsing, at <= Len(Doc(file))
    PROVE  Cur \in Item /\ file \in Files
<1>1. file \in Files BY ConfigAssumption DEF Parsing, TypeOK, Files, NoFile
<1>2. Doc(file) \in Seq(Item) BY <1>1, ConfigAssumption DEF Doc, Files
<1>3. at \in 1..Len(Doc(file)) BY DEF TypeOK
<1>4. QED BY <1>1, <1>2, <1>3, ElementOfSeq DEF Cur

(* The parse of a file stops at an exception; nothing the handlers record  *)
(* changes, and the stack is left to ReadEntry.                            *)
LEMMA AbortKeeps ==
    ASSUME IInv, Parsing, Abort,
           UNCHANGED <<pluginDir, plugins, settings, syntaxErrs, declaredIn, applied>>,
           stack' \in Seq(StackRec), version' \in {"unset", "ok", "new"}
    PROVE  IInv'
<1>1. file \in Files BY ConfigAssumption DEF Parsing, IInv, TypeOK, Files, NoFile
<1>2. TypeOK' BY <1>1 DEF Abort, IInv, TypeOK, StackRec, NoFile
<1>3. StackTagged' BY DEF Abort, StackTagged
<1>4. SettingsToOwnPlugin' BY DEF IInv, SettingsToOwnPlugin
<1>5. QED BY <1>2, <1>3, <1>4 DEF IInv

LEMMA InitIInv == Init => IInv
<1> SUFFICES ASSUME Init PROVE IInv OBVIOUS
<1>1. TypeOK BY EmptySeq, ConfigAssumption DEF Init, TypeOK, Files, NoFile
<1>2. QED BY <1>1 DEF Init, IInv, StackTagged, SettingsToOwnPlugin

-----------------------------------------------------------------------------
(* A frame pushed with no tag data leaves the tagged frames as they were.  *)
LEMMA PushUntagged ==
    ASSUME IInv, Parsing, NEW r \in StackRec, r.data = NoPlugin,
           stack' = Append(stack, r), Advance,
           UNCHANGED <<plugins, declaredIn, pluginDir, settings, syntaxErrs, applied>>,
           version' \in {"unset", "ok", "new"}
    PROVE  IInv'
<1>1. stack \in Seq(StackRec) BY DEF IInv, TypeOK, StackRec
<1>2. stack' \in Seq(StackRec) /\ Len(stack') = Len(stack) + 1
      /\ \A k \in 1..Len(stack) : stack'[k] = stack[k]
      /\ stack'[Len(stack) + 1] = r
  BY <1>1, AppendProperties
<1>3. TypeOK' BY <1>2 DEF Advance, IInv, TypeOK, StackRec
<1>4. StackTagged' BY <1>1, <1>2 DEF Advance, IInv, StackTagged
<1>5. QED BY <1>3, <1>4 DEF IInv, SettingsToOwnPlugin

LEMMA OpenInv == IInv /\ Open => IInv'
<1> SUFFICES ASSUME IInv, Open PROVE IInv' OBVIOUS
<1>0. Cur \in Item /\ file \in Files /\ stack \in Seq(StackRec)
  BY CurItem DEF Open, IInv, TypeOK, StackRec
<1>1. CASE Cur.tag = "plugin" /\ OpenPlugin(Cur) /\ UNCHANGED version
  <2>1. CASE stack # << >> \/ Cur.name = NoName \/ ~Cur.lib \/ Cur.name \in plugins
    BY <1>0, <1>1, <2>1, AbortKeeps DEF Open, OpenPlugin, IInv, TypeOK
  <2>2. CASE ~(stack # << >> \/ Cur.name = NoName \/ ~Cur.lib \/ Cur.name \in plugins)
    <3>1. PICK outcome \in {"ok", "ctorFail", "confFail"} :
            /\ stack' = Append(stack, [tag |-> "plugin", name |-> Cur.name,
                                       data |-> TagData(Cur.name, outcome)])
            /\ plugins' = IF outcome = "ok" THEN plugins \cup {Cur.name} ELSE plugins
            /\ declaredIn' = IF outcome = "ok"
                             THEN [declaredIn EXCEPT ![Cur.name] = file]
                             ELSE declaredIn
            /\ Advance
      BY <1>1, <2>2 DEF OpenPlugin
    <3> DEFINE n == Cur.name
    <3>2. n \in Names /\ n \notin plugins /\ stack = << >> BY <1>0, <2>2 DEF Item
    <3>3. /\ stack' \in Seq(StackRec) /\ Len(stack') = 1
          /\ stack'[1] = [tag |-> "plugin", name |-> n, data |-> TagData(n, outcome)]
      <4>1. [tag |-> "plugin", name |-> n, data |-> TagData(n, outcome)] \in StackRec
        BY <3>2 DEF TagData, StackRec, Tags
      <4>2. QED BY <1>0, <3>1, <3>2, <4>1, AppendProperties, EmptySeq
    <3>4. UNCHANGED <<version, pluginDir, settings, syntaxErrs, applied>>
      BY <1>1 DEF Open
    <3>5. TypeOK'
      BY <1>0, <3>1, <3>2, <3>3, <3>4 DEF Advance, TagData, IInv, TypeOK, StackRec
    <3>6. StackTagged'
      <4>1. CASE outcome = "ok"
        <5>1. plugins' = plugins \cup {n} /\ declaredIn'[n] = file
          BY <3>1, <3>2, <4>1 DEF IInv, TypeOK
        <5>2. Len(stack') = 1 /\ stack'[1].data = n /\ stack'[1].name = n /\ file' = file
          BY <3>1, <3>3, <4>1 DEF Advance, TagData
        <5>3. QED BY <5>1, <5>2 DEF StackTagged
      <4>2. CASE outcome # "ok" BY <3>3, <4>2 DEF TagData, StackTagged
      <4>3. QED BY <4>1, <4>2
    <3>7. SettingsToOwnPlugin'
      <4> SUFFICES ASSUME NEW a \in applied
                   PROVE  a[1] \in plugins' /\ declaredIn'[a[1]] = a[2] /\ a[1] = a[3]
        BY <3>4 DEF SettingsToOwnPlugin
      <4>1. a[1] \in plugins /\ declaredIn[a[1]] = a[2] /\ a[1] = a[3]
        BY DEF IInv, SettingsToOwnPlugin
      <4>2. a[1] # n BY <4>1, <3>2
      <4>3. QED BY <3>1, <4>1, <4>2
    <3>8. QED BY <3>5, <3>6, <3>7 DEF IInv
  <2>3. QED BY <2>1, <2>2
<1>2. CASE Cur.tag = "csconf" /\ OpenCsconf(Cur)
  <2>1. CASE stack # << >> \/ Cur.ver = "missing"
    BY <1>0, <1>2, <2>1, AbortKeeps DEF Open, OpenCsconf, IInv, TypeOK
  <2>2. CASE ~(stack # << >> \/ Cur.ver = "missing") /\ Cur.ver = "new"
    BY <1>0, <1>2, <2>2, AbortKeeps DEF Open, OpenCsconf, IInv, TypeOK, Item, Versions
  <2>3. CASE ~(stack # << >> \/ Cur.ver = "missing") /\ Cur.ver # "new"
    <3>1. [tag |-> "csconf", name |-> NoName, data |-> NoPlugin] \in StackRec
      BY DEF StackRec, Tags
    <3>2. version' \in {"unset", "ok", "new"} BY <1>0, <1>2, <2>3 DEF OpenCsconf, Item, Versions
    <3>3. QED BY <1>0, <1>2, <2>3, <3>1, <3>2, PushUntagged DEF Open, OpenCsconf
  <2>4. QED BY <2>1, <2>2, <2>3
<1>3. CASE Cur.tag \notin {"plugin", "csconf"}
  <2>1. [tag |-> Cur.tag, name |-> NoName, data |-> NoPlugin] \in StackRec
    BY <1>0 DEF StackRec, Item
  <2>2. QED BY <1>0, <1>3, <2>1, PushUntagged DEF Open, IInv, TypeOK
<1>4. QED BY <1>1, <1>2, <1>3 DEF Open

-----------------------------------------------------------------------------
(* A pop that records nothing keeps the invariant: the frames that remain  *)
(* were below the popped one.                                              *)
LEMMA PopKeeps ==
    ASSUME IInv, Parsing, stack' = Front(stack), Advance,
           UNCHANGED <<version, plugins, syntaxErrs, declaredIn, settings, applied>>,
           pluginDir' \in {"default", "set"}
    PROVE  IInv'
<1>1. stack \in Seq(StackRec) BY DEF IInv, TypeOK, StackRec
<1>2. /\ Front(stack) \in Seq(StackRec)
      /\ \A k \in 1..Len(Front(stack)) : k \in 1..Len(stack) /\ Front(stack)[k] = stack[k]
  BY <1>1, FrontProps
<1>3. TypeOK' BY <1>2 DEF Advance, IInv, TypeOK, StackRec
<1>4. StackTagged' BY <1>2 DEF Advance, IInv, StackTagged
<1>5. QED BY <1>3, <1>4 DEF IInv, SettingsToOwnPlugin

(* ParseElementClose of a setting inside a <plugin> whose tag data names a *)
(* plugin: the setting goes to the plugin registered under that element's  *)
(* name from this very file.                                               *)
LEMMA SettingApplied ==
    ASSUME IInv, Close, Cur.tag \in Settings, CloseSetting(Cur, Front(stack)),
           Parent(Front(stack)) = "plugin", Cur.text,
           Last(Front(stack)).data # NoPlugin
    PROVE  IInv'
<1> DEFINE anc == Front(stack)
           j == Len(anc)
           n == Last(anc).data
<1>0. Cur \in Item /\ file \in Files /\ stack \in Seq(StackRec)
  BY CurItem DEF Close, IInv, TypeOK, StackRec
<1>1. /\ anc \in Seq(StackRec)
      /\ \A k \in 1..j : k \in 1..Len(stack) /\ anc[k] = stack[k]
  BY <1>0, FrontProps
<1>2. anc # << >> BY DEF Parent
<1>3. j \in 1..Len(stack) /\ Last(anc) = stack[j]
  BY <1>1, <1>2, EmptySeq, LenProperties DEF Last
<1>4. n \in plugins /\ declaredIn[n] = file /\ n = Last(anc).name
  BY <1>3 DEF Close, Parsing, IInv, StackTagged
<1>5. /\ settings' = [settings EXCEPT ![n] = @ \cup {Cur.tag}]
      /\ applied' = applied \cup {<<n, file, Last(anc).name>>}
      /\ Advance
  BY DEF CloseSetting
<1>6. n \in Names BY <1>4 DEF IInv, TypeOK
<1>7. UNCHANGED <<version, plugins, syntaxErrs, declaredIn>> /\ pluginDir' = pluginDir
  BY DEF Close
<1>8. stack' \in Seq(StackRec) /\ \A k \in 1..Len(stack') : stack'[k] = stack[k]
  BY <1>1 DEF Close
<1>9. TypeOK' BY <1>0, <1>4, <1>5, <1>6, <1>7, <1>8 DEF Advance, IInv, TypeOK, StackRec
<1>10. StackTagged'
  BY <1>1, <1>5, <1>7, <1>8 DEF Close, Advance, IInv, StackTagged
<1>11. SettingsToOwnPlugin' BY <1>4, <1>5, <1>7 DEF IInv, SettingsToOwnPlugin
<1>12. QED BY <1>9, <1>10, <1>11 DEF IInv

LEMMA CloseInv == IInv /\ Close => IInv'
<1> SUFFICES ASSUME IInv, Close PROVE IInv' OBVIOUS
<1>0. Cur \in Item /\ file \in Files /\ stack \in Seq(StackRec)
  BY CurItem DEF Close, IInv, TypeOK, StackRec
<1>1. Front(stack) \in Seq(StackRec) BY <1>0, FrontProps
<1>2. Parsing /\ stack' = Front(stack) /\ UNCHANGED <<version, plugins, syntaxErrs, declaredIn>>
  BY DEF Close
<1>3. CASE Cur.tag = "plugin-dir"
  <2>0. /\ IF Parent(Front(stack)) # "csconf" \/ ~Cur.text
           THEN Abort /\ UNCHANGED pluginDir
           ELSE pluginDir' = "set" /\ Advance
        /\ UNCHANGED <<settings, applied>>
    BY <1>3 DEF Close, Settings
  <2>1. CASE Parent(Front(stack)) # "csconf" \/ ~Cur.text
    BY <1>1, <1>2, <2>0, <2>1, AbortKeeps DEF IInv, TypeOK
  <2>2. CASE ~(Parent(Front(stack)) # "csconf" \/ ~Cur.text)
    BY <1>2, <2>0, <2>2, PopKeeps
  <2>3. QED BY <2>1, <2>2
<1>4. CASE Cur.tag \in Settings
  <2>1. CloseSetting(Cur, Front(stack)) /\ UNCHANGED pluginDir BY <1>4 DEF Close, Settings
  <2>2. CASE Parent(Front(stack)) # "plugin" \/ ~Cur.text
    BY <1>1, <1>2, <2>1, <2>2, AbortKeeps DEF CloseSetting, IInv, TypeOK
  <2>3. CASE ~(Parent(Front(stack)) # "plugin" \/ ~Cur.text) /\ Last(Front(stack)).data = NoPlugin
    BY <1>2, <2>1, <2>3, PopKeeps DEF CloseSetting, IInv, TypeOK
  <2>4. CASE ~(Parent(Front(stack)) # "plugin" \/ ~Cur.text) /\ Last(Front(stack)).data # NoPlugin
    BY <1>4, <2>1, <2>4, SettingApplied
  <2>5. QED BY <2>2, <2>3, <2>4
<1>5. CASE Cur.tag \notin Settings \cup {"plugin-dir"}
  BY <1>2, <1>5, PopKeeps DEF Close, IInv, TypeOK
<1>6. QED BY <1>3, <1>4, <1>5

-----------------------------------------------------------------------------
(* Malformed XML, the end of a file and readdir record nothing a setting   *)
(* reads; ReadEntry starts the next plugin file with an empty stack.       *)
LEMMA OtherInv ==
    IInv /\ (SyntaxError \/ EndMain \/ EndFile \/ ScanEnd \/ \E e \in DirEntries : ReadEntry(e))
    => IInv'
<1> SUFFICES ASSUME IInv,
                    SyntaxError \/ EndMain \/ EndFile \/ ScanEnd \/ \E e \in DirEntries : ReadEntry(e)
             PROVE  IInv'
  OBVIOUS
<1>1. CASE SyntaxError
  <2>1. syntaxErrs' \in 0..MaxSyntaxErrors BY <1>1, ConfigAssumption DEF SyntaxError, IInv, TypeOK
  <2>3. TypeOK' BY <1>1, <2>1, ConfigAssumption DEF SyntaxError, Abort, Parsing, IInv, TypeOK, Files, NoFile
  <2>4. StackTagged' BY <1>1 DEF SyntaxError, Abort, StackTagged
  <2>5. QED BY <1>1, <2>3, <2>4 DEF SyntaxError, IInv, SettingsToOwnPlugin
<1>2. CASE EndMain \/ EndFile \/ ScanEnd
  <2>1. file' = NoFile \/ (file' = file /\ file = NoFile) BY <1>2 DEF EndMain, EndFile, ScanEnd
  <2>2. TypeOK' BY <1>2 DEF EndMain, EndFile, ScanEnd, IInv, TypeOK, NoFile
  <2>3. QED BY <1>2, <2>1, <2>2 DEF EndMain, EndFile, ScanEnd, IInv, StackTagged,
                                    SettingsToOwnPlugin
<1>3. ASSUME NEW e \in DirEntries, ReadEntry(e) PROVE IInv'
  <2>1. CASE DirKind[e] = "conf"
    <3>1. stack' = << >> /\ file' \in Files BY <1>3, <2>1 DEF ReadEntry, Files
    <3>2. TypeOK' BY <1>3, <2>1, <3>1, EmptySeq DEF ReadEntry, IInv, TypeOK
    <3>3. StackTagged' BY <3>1 DEF StackTagged
    <3>4. QED BY <1>3, <3>2, <3>3 DEF ReadEntry, IInv, SettingsToOwnPlugin
  <2>2. CASE DirKind[e] # "conf"
    BY <1>3, <2>2 DEF ReadEntry, IInv, TypeOK, StackTagged, SettingsToOwnPlugin
  <2>3. QED BY <2>1, <2>2
<1>4. QED BY <1>1, <1>2, <1>3

LEMMA NextIInv == IInv /\ [Next]_vars => IInv'
<1> SUFFICES ASSUME IInv, [Next]_vars PROVE IInv' OBVIOUS
<1>1. CASE Open BY <1>1, OpenInv
<1>2. CASE Close BY <1>2, CloseInv
<1>3. CASE SyntaxError \/ EndMain \/ EndFile \/ ScanEnd \/ \E e \in DirEntries : ReadEntry(e)
  BY <1>3, OtherInv
<1>4. CASE UNCHANGED vars
  BY <1>4 DEF vars, IInv, TypeOK, StackTagged, SettingsToOwnPlugin
<1>5. QED BY <1>1, <1>2, <1>3, <1>4 DEF Next

(* Type correctness of start-up configuration: csXmlParser's stack holds   *)
(* frames of known tags, and the plugins, settings and ghost records of    *)
(* csMainConf and csMain keep their types, for any documents and any       *)
(* plugin directory.                                                       *)
THEOREM ConfigTypeCorrect == Spec => []TypeOK
<1>1. IInv => TypeOK BY DEF IInv
<1>2. QED BY InitIInv, NextIInv, <1>1, PTL DEF Spec

(* Settings reach their own plugin, for every main document, every plugin  *)
(* directory and every readdir order: ParseElementClose applies a          *)
(* <state-file> or <event-filter> only to the registered plugin that the   *)
(* enclosing <plugin> element of the same file declared, because           *)
(* ParseElementOpen tags the element only after the loader and             *)
(* SetConfigurationFile succeeded, and a duplicate name is rejected.       *)
THEOREM SettingsCorrect == Spec => []SettingsToOwnPlugin
<1>1. IInv => SettingsToOwnPlugin BY DEF IInv
<1>2. QED BY InitIInv, NextIInv, <1>1, PTL DEF Spec

=============================================================================
