------------------------------- MODULE CsConfig -------------------------------
(***************************************************************************)
(* Start-up configuration of csmain.cpp: csMainConf::Reload parses the     *)
(* main configuration file, then ScanPlugins parses every "*.conf" file    *)
(* of the plugin directory, in readdir order.  The XML parser (csXmlParser,*)
(* outside src/) calls csMainXmlParser::ParseElementOpen with the stack of *)
(* the element's ancestors before it pushes the element, and               *)
(* ParseElementClose after it pops it; ParseError throws                   *)
(* csXmlParseException, which ends the parse of the file.  An error in the *)
(* main file reaches main(), which exits with code 2; ScanPlugins catches  *)
(* an error in a plugin file, logs it, and goes on with the next entry.    *)
(*                                                                         *)
(* A document is a sequence of open and close items; an item carries the  *)
(* tag, the attributes the code tests (name, library, version) and, on a   *)
(* close, whether the element's text is non-empty.  Names are model        *)
(* values; the stack-size attribute, which only reaches the loader, is    *)
(* left out.                                                               *)
(***************************************************************************)
EXTENDS Integers, Sequences

CONSTANTS
    Names,            \* plugin names
    DirEntries,       \* the entries of the plugin directory
    MainDoc,          \* the main configuration document
    DirDoc,           \* DirDoc[e]: the document of entry e
    DirKind,          \* DirKind[e]: "conf", "dir" or "other"
    MaxSyntaxErrors   \* how many files may be malformed XML

NoName == "none"

NoPlugin == "null"

Tags == {"csconf", "plugin", "plugin-dir", "state-file", "event-filter", "other"}

Versions == {"ok", "new", "missing"}

Item == [ev : {"open", "close"}, tag : Tags, name : Names \cup {NoName},
         lib : BOOLEAN, ver : Versions, text : BOOLEAN]

Files == {"main"} \cup DirEntries

NoFile == "between"

ASSUME ConfigAssumption ==
    /\ NoName \notin Names /\ NoPlugin \notin Names
    /\ "main" \notin DirEntries /\ NoFile \notin DirEntries
    /\ MainDoc \in Seq(Item)
    /\ DirDoc \in [DirEntries -> Seq(Item)]
    /\ DirKind \in [DirEntries -> {"conf", "dir", "other"}]
    /\ MaxSyntaxErrors \in Nat

Settings == {"state-file", "event-filter"}

VARIABLES
    phase,      \* "main" (Reload), "scan" (ScanPlugins), "run" (started), "failed" (exit 2)
    file,       \* the file being parsed, or NoFile between two entries
    at,         \* index of the next item of that file
    stack,      \* csXmlParser's stack: tag and GetData() of each ancestor
    todo,       \* the directory entries readdir has not returned yet
    version,    \* csMainConf::version: "unset", "ok" or "new"
    pluginDir,  \* csMainConf::plugin_dir: "default" or "set"
    plugins,    \* the names in csMain::plugin
    settings,   \* the settings each plugin received
    syntaxErrs, \* files that turned out to be malformed
    declaredIn, \* ghost: the file whose <plugin> registered each name
    applied,    \* ghost: <<plugin, file, enclosing plugin element's name>> of each setting
    aborted     \* ghost: files whose parse stopped at an error

vars == <<phase, file, at, stack, todo, version, pluginDir, plugins, settings,
          syntaxErrs, declaredIn, applied, aborted>>

Doc(f) == IF f = "main" THEN MainDoc ELSE DirDoc[f]

TypeOK ==
    /\ phase \in {"main", "scan", "run", "failed"}
    /\ file \in Files \cup {NoFile}
    /\ at \in Nat \ {0}
    /\ stack \in Seq([tag : Tags, name : Names \cup {NoName}, data : Names \cup {NoPlugin}])
    /\ todo \subseteq DirEntries
    /\ version \in {"unset", "ok", "new"}
    /\ pluginDir \in {"default", "set"}
    /\ plugins \subseteq Names
    /\ settings \in [Names -> SUBSET Settings]
    /\ syntaxErrs \in 0..MaxSyntaxErrors
    /\ declaredIn \in [Names -> Files \cup {NoFile}]
    /\ applied \subseteq Names \X Files \X Names
    /\ aborted \subseteq Files

Init ==
    /\ phase = "main"
    /\ file = "main"
    /\ at = 1
    /\ stack = << >>
    /\ todo = {}
    /\ version = "unset"
    /\ pluginDir = "default"
    /\ plugins = {}
    /\ settings = [n \in Names |-> {}]
    /\ syntaxErrs = 0
    /\ declaredIn = [n \in Names |-> NoFile]
    /\ applied = {}
    /\ aborted = {}

-----------------------------------------------------------------------------

(* The parser's stack without its innermost element: the pop before        *)
(* ParseElementClose.                                                      *)
Front(s) == SubSeq(s, 1, Len(s) - 1)

(* The innermost element of the parser's stack.                            *)
Last(s) == s[Len(s)]

Parsing == file # NoFile /\ phase \in {"main", "scan"}

Cur == Doc(file)[at]

(* The tag of the innermost enclosing element, as ParseElement* sees it.   *)
Parent(s) == IF s = << >> THEN "none" ELSE Last(s).tag

(* The parse of the current file stops at an exception: in the main file   *)
(* it reaches main(), which exits with csEXIT_XML_PARSE_ERROR; in a plugin *)
(* file ScanPlugins logs it and reads the next entry.                      *)
Abort ==
    /\ phase' = IF phase = "main" THEN "failed" ELSE "scan"
    /\ file' = NoFile
    /\ aborted' = aborted \cup {file}
    /\ UNCHANGED <<at, todo>>

(* The parser moves past the current item.                                 *)
Advance == at' = at + 1 /\ UNCHANGED <<phase, file, todo, aborted>>

(* Mutant of TagData: the tag keeps the plugin even when                   *)
(* SetConfigurationFile threw and the plugin was deleted.                  *)
TagDataEarly(n, outcome) == IF outcome # "ctorFail" THEN n ELSE NoPlugin

(* tag->SetData(plugin), reached only when the loader and                  *)
(* SetConfigurationFile both succeeded.                                    *)
TagData(n, outcome) == IF outcome = "ok" THEN n ELSE NoPlugin

(* ParseElementOpen of <plugin>.  The loader may throw ("ctorFail") or     *)
(* SetConfigurationFile may throw ("confFail"): both are logged, and the   *)
(* plugin is not registered.                                               *)
OpenPlugin(it) ==
    IF stack # << >> \/ it.name = NoName \/ ~it.lib \/ it.name \in plugins
    THEN Abort /\ UNCHANGED <<stack, plugins, declaredIn>>
    ELSE \E outcome \in {"ok", "ctorFail", "confFail"} :
            /\ stack' = Append(stack, [tag |-> "plugin", name |-> it.name,
                                       data |-> TagData(it.name, outcome)])
            /\ plugins' = IF outcome = "ok" THEN plugins \cup {it.name} ELSE plugins
            /\ declaredIn' = IF outcome = "ok"
                             THEN [declaredIn EXCEPT ![it.name] = file]
                             ELSE declaredIn
            /\ Advance

(* ParseElementOpen of <csconf>: the version is stored before it is        *)
(* checked.                                                                *)
OpenCsconf(it) ==
    /\ IF stack # << >> \/ it.ver = "missing"
       THEN Abort /\ UNCHANGED <<stack, version>>
       ELSE /\ version' = it.ver
            /\ IF it.ver = "new" THEN Abort /\ UNCHANGED stack
               ELSE /\ stack' = Append(stack, [tag |-> "csconf", name |-> NoName,
                                               data |-> NoPlugin])
                    /\ Advance
    /\ UNCHANGED <<plugins, declaredIn>>

(* The parser reads an opening tag and calls ParseElementOpen.             *)
Open ==
    /\ Parsing
    /\ at <= Len(Doc(file))
    /\ Cur.ev = "open"
    /\ \/ Cur.tag = "plugin" /\ OpenPlugin(Cur) /\ UNCHANGED version
       \/ Cur.tag = "csconf" /\ OpenCsconf(Cur)
       \/ /\ Cur.tag \notin {"plugin", "csconf"}
          /\ stack' = Append(stack, [tag |-> Cur.tag, name |-> NoName, data |-> NoPlugin])
          /\ Advance
          /\ UNCHANGED <<version, plugins, declaredIn>>
    /\ UNCHANGED <<pluginDir, settings, syntaxErrs, applied>>

(* ParseElementClose of <plugin-dir>, <state-file> and <event-filter>:     *)
(* the element must sit in the right parent and have text.  The setting    *)
(* goes to the plugin its parent's tag data names, if any.                 *)
(* <state-file> calls SetStateFile, <event-filter> ParseEventFilter.       *)
CloseSetting(it, anc) ==
    IF Parent(anc) # "plugin" \/ ~it.text
    THEN Abort /\ UNCHANGED <<settings, applied>>
    ELSE /\ LET n == Last(anc).data IN
            IF n = NoPlugin THEN UNCHANGED <<settings, applied>>
            ELSE /\ settings' = [settings EXCEPT ![n] = @ \cup {it.tag}]
                 /\ applied' = applied \cup {<<n, file, Last(anc).name>>}
         /\ Advance

(* The parser reads a closing tag, pops the element and calls             *)
(* ParseElementClose with the remaining ancestors.                         *)
Close ==
    /\ Parsing
    /\ at <= Len(Doc(file))
    /\ Cur.ev = "close"
    /\ stack' = Front(stack)
    /\ \/ /\ Cur.tag = "plugin-dir"
          /\ IF Parent(Front(stack)) # "csconf" \/ ~Cur.text
             THEN Abort /\ UNCHANGED pluginDir
             ELSE pluginDir' = "set" /\ Advance
          /\ UNCHANGED <<settings, applied>>
       \/ /\ Cur.tag \in Settings
          /\ CloseSetting(Cur, Front(stack))
          /\ UNCHANGED pluginDir
       \/ /\ Cur.tag \notin Settings \cup {"plugin-dir"}
          /\ Advance
          /\ UNCHANGED <<pluginDir, settings, applied>>
    /\ UNCHANGED <<version, plugins, syntaxErrs, declaredIn>>

(* csXmlParser::Parse meets malformed XML: it throws csXmlParseException.  *)
SyntaxError ==
    /\ Parsing
    /\ syntaxErrs < MaxSyntaxErrors
    /\ syntaxErrs' = syntaxErrs + 1
    /\ Abort
    /\ UNCHANGED <<stack, version, pluginDir, plugins, settings, declaredIn, applied>>

(* The end of the main file: csMainConf::Reload goes on to ScanPlugins,    *)
(* which opens plugin_dir.                                                 *)
EndMain ==
    /\ phase = "main" /\ file = "main"
    /\ at > Len(MainDoc)
    /\ phase' = "scan"
    /\ file' = NoFile
    /\ todo' = DirEntries
    /\ UNCHANGED <<at, stack, version, pluginDir, plugins, settings, syntaxErrs,
                   declaredIn, applied, aborted>>

(* The end of a plugin file: ScanPlugins reads the next entry.             *)
EndFile ==
    /\ phase = "scan" /\ file # NoFile
    /\ at > Len(DirDoc[file])
    /\ file' = NoFile
    /\ UNCHANGED <<phase, at, stack, todo, version, pluginDir, plugins, settings,
                   syntaxErrs, declaredIn, applied, aborted>>

(* readdir_r returns entry e.  Directories, other file types and names     *)
(* not ending in ".conf" are skipped; a plugin file is parsed from the     *)
(* start with a reset parser.                                              *)
ReadEntry(e) ==
    /\ phase = "scan" /\ file = NoFile
    /\ e \in todo
    /\ todo' = todo \ {e}
    /\ IF DirKind[e] = "conf"
       THEN file' = e /\ at' = 1 /\ stack' = << >>
       ELSE UNCHANGED <<file, at, stack>>
    /\ UNCHANGED <<phase, version, pluginDir, plugins, settings, syntaxErrs,
                   declaredIn, applied, aborted>>

(* readdir_r returns no more entries, or fails (logged), or opendir failed *)
(* (a warning): ScanPlugins returns, Reload returns, ValidateConfiguration *)
(* only logs, and start-up goes on.                                        *)
ScanEnd ==
    /\ phase = "scan" /\ file = NoFile
    /\ phase' = "run"
    /\ UNCHANGED <<file, at, stack, todo, version, pluginDir, plugins, settings,
                   syntaxErrs, declaredIn, applied, aborted>>

Next ==
    \/ Open \/ Close \/ SyntaxError
    \/ EndMain \/ EndFile \/ ScanEnd
    \/ \E e \in DirEntries : ReadEntry(e)

Spec == Init /\ [][Next]_vars /\ WF_vars(Next)

-----------------------------------------------------------------------------
(* Properties.                                                             *)

(* Settings reach their own plugin: a <state-file> or <event-filter> is    *)
(* applied only to a registered plugin, the one whose <plugin> element     *)
(* encloses it in the file that registered it, even when the loader or     *)
(* SetConfigurationFile of an earlier plugin of the same name failed       *)
(* (ParseElementOpen's SetData, ParseElementClose's GetData).              *)
SettingsToOwnPlugin ==
    \A a \in applied : a[1] \in plugins /\ declaredIn[a[1]] = a[2] /\ a[1] = a[3]

(* A plugin whose configuration fails to load is left out (spec, error    *)
(* handling design: "plugin errors during load/start are logged and the    *)
(* plugin is excluded from the running set"): no registered plugin comes   *)
(* from a file whose parse stopped at an error.                            *)
PluginsFullyConfigured == \A n \in plugins : declaredIn[n] \notin aborted

=============================================================================
