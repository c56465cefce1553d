---------------------------- MODULE SlaxLoader ----------------------------
(***************************************************************************)
(* Loading scripts (libslax/slaxloader.c): slaxEnable hooks into libxslt   *)
(* and libxml2, which then ask for every file through the hooks; includes  *)
(* are searched for in directories, and what a script uses is loaded.      *)
(*                                                                         *)
(* A file name is a sequence of characters, a url a directory and a name;  *)
(* a script says what it declares and uses and what it imports.            *)
(***************************************************************************)
EXTENDS SlaxDyn

CONSTANTS
    Scripts,        \* url -> script; what there is to load
    Directories,    \* what may be added to either list
    OneLetter,      \* the directories whose names are one letter
    Space, Percent, Zero, Suffix,   \* characters, and ".slax" as one
    MaxCalls        \* bound: calls made

\* Characters are numbers.  What a script declares and uses, and the elements in it, come in
\* some order.
ASSUME LoaderAssumption ==
    /\ Environment \in Seq(ToSet(Environment))
    /\ {Space, Percent, Zero} \subseteq Nat
    /\ \A file \in DOMAIN Scripts :
          LET script == Scripts[file]
          IN /\ file = <<file[1], file[2]>> /\ file[2] \in Seq(Nat)
             /\ script.uses \in Seq(ToSet(script.uses))
             /\ script.inner \in Seq(ToSet(script.inner))
             /\ \A node \in {script} \cup ToSet(script.inner) :
                   node.extensions \in Seq(ToSet(node.extensions))

VARIABLES
    slaxEnabled,    \* 0, 1 for SLAX_ENABLE or 2 for SLAX_FORCE
    loader,         \* libxslt's loader, "default" or "slaxLoader"
    entityLoader,   \* libxml2's, "default" or "slaxLoadEntity"
    slaxOriginalXsltDocDefaultLoader, slaxOriginalEntityLoader,
    slaxIncludes, dyn,
    result,         \* what the last load gave: the file and the document
    forgotten,      \* a shutdown left libraries open
    calls

vars == <<slaxEnabled, loader, entityLoader, slaxOriginalXsltDocDefaultLoader,
          slaxOriginalEntityLoader, slaxIncludes, dyn, result, forgotten, calls>>

Hooks == <<slaxEnabled, loader, entityLoader, slaxOriginalXsltDocDefaultLoader,
           slaxOriginalEntityLoader>>

NoFile == <<"none", << >>>>
NoRoot == [ns |-> << >>, extensions |-> << >>]
NoResult == [asked |-> NoFile, file |-> NoFile, root |-> NoRoot, ok |-> FALSE]
Bare == "."

-----------------------------------------------------------------------------
(* Names *)

\* Two digits that stand for a blank or a percent sign.
Escape(c) == IF c \in {Space, Percent} THEN <<Percent, Zero + (c \div 16), Zero + (c % 16)>> ELSE <<c>>

\* Wrong: a percent sign stands for itself.
EscapeBlanks(name) ==
    FlattenSeq([i \in DOMAIN name |-> IF name[i] = Space THEN Escape(Space) ELSE <<name[i]>>])

slaxElementAddEscaped(name) == FlattenSeq([i \in DOMAIN name |-> Escape(name[i])])

DigitAt(url, i) == IF i <= Len(url) THEN url[i] - Zero ELSE 0

\* Characters read and the name written, after so many rounds of the loop.
Unescaped(url) ==
    LET after[k \in 0 .. Len(url)] ==
            IF k = 0 THEN [up |-> 0, np |-> << >>]
            ELSE LET up == after[k - 1].up
                     np == after[k - 1].np
                 IN IF up >= Len(url) THEN after[k - 1]
                    ELSE IF url[up + 1] = Percent
                    THEN [up |-> up + 3,
                          np |-> Append(np, 16 * DigitAt(url, up + 2) + DigitAt(url, up + 3))]
                    ELSE [up |-> up + 1, np |-> Append(np, url[up + 1])]
    IN after[Len(url)].np

slaxIsSlaxFile(url) == slaxEnabled = 2 \/ (url[2] # << >> /\ Last(url[2]) = Suffix)

\* The file itself, or its last part in the first directory that has it.
slaxFindIncludeFile(url) ==
    LET Has(d) == <<d, url[2]>> \in DOMAIN Scripts
        i == First(slaxIncludes, Has)
    IN IF url \in DOMAIN Scripts THEN url
       ELSE IF i # 0 THEN <<slaxIncludes[i], url[2]>> ELSE NoFile

\* A path's directories; one letter and a colon are taken for nothing.
slaxIncludeAddPath(path) ==
    LET added[i \in 0 .. Len(path)] ==
            IF i = 0 THEN << >>
            ELSE IF i < Len(path) /\ path[i] \in OneLetter THEN added[i - 1]
            ELSE Append(added[i - 1], path[i])
    IN added[Len(path)]

-----------------------------------------------------------------------------
(* Parsing: the root that slaxBuildDoc makes, and the namespaces the       *)
(* script's statements and names add to it.                                *)

slaxBuildDoc == [ns |-> ("xsl" :> "xslt"), extensions |-> << >>]

Declared(script) ==
    [slaxBuildDoc EXCEPT !.ns = @ @@ script.ns, !.extensions = script.extensions]

Parsed(script) ==
    LET after[i \in 0 .. Len(script.uses)] ==
            IF i = 0 THEN Declared(script) ELSE slaxFindNs(dyn, after[i - 1], script.uses[i])
    IN after[Len(script.uses)]

Errors(script) == {i \in DOMAIN script.uses : script.uses[i] \notin DOMAIN Parsed(script).ns}

\* The dynamic state after slaxLoadFile; nothing is loaded after errors.
slaxLoadFile(script) ==
    IF Errors(script) # {} THEN dyn ELSE slaxDynLoad(dyn, Parsed(script), script.inner)

\* What libxslt gets when it asks its loader for a url.
slaxLoader(url) ==
    LET file == slaxFindIncludeFile(<<url[1], Unescaped(url[2])>>)
        script == Scripts[file]
    IN IF file = NoFile THEN [NoResult EXCEPT !.asked = url]
       ELSE [asked |-> url, file |-> file, root |-> Parsed(script), ok |-> Errors(script) = {}]

\* The loader asks slaxLoadFile for the document and loads extensions again.
LoadedTwice(file) ==
    LET script == Scripts[file]
    IN IF Errors(script) # {} THEN dyn
       ELSE slaxDynLoad(slaxLoadFile(script), Parsed(script), script.inner)

-----------------------------------------------------------------------------
Init ==
    /\ slaxEnabled = 0
    /\ loader = "default"
    /\ entityLoader = "default"
    /\ slaxOriginalXsltDocDefaultLoader = "none"
    /\ slaxOriginalEntityLoader = "none"
    /\ slaxIncludes = << >>
    /\ dyn = Nothing
    /\ result = NoResult
    /\ forgotten = FALSE
    /\ calls = 0

Call ==
    /\ calls < MaxCalls
    /\ calls' = calls + 1

slaxIncludeAdd(path) ==
    /\ slaxIncludes' = slaxIncludes \o slaxIncludeAddPath(path)
    /\ UNCHANGED <<Hooks, dyn, result, forgotten>>

AddLibraryPath(dir) ==
    /\ dyn' = slaxDynAdd(dyn, dir)
    /\ UNCHANGED <<Hooks, slaxIncludes, result, forgotten>>

MarkExslt ==
    /\ slaxEnabled # 0
    /\ dyn' = slaxDynMarkExslt(dyn)
    /\ UNCHANGED <<Hooks, slaxIncludes, result, forgotten>>

\* Shut down; the entity loader and the libraries stay.
slaxCleanup ==
    /\ slaxEnabled' = 0
    /\ loader' = "default"
    /\ slaxIncludes' = << >>
    /\ forgotten' = (forgotten \/ dyn.libraries # << >>)
    /\ UNCHANGED <<entityLoader, slaxOriginalXsltDocDefaultLoader,
                   slaxOriginalEntityLoader, dyn, result>>

\* Wrong: the loaders are saved each time.
SaveAlways(saved, current) == current

Save(saved, current) == IF saved = "none" THEN current ELSE saved

slaxTurnOn(enable) ==
    /\ slaxEnabled = 0
    /\ slaxEnabled' = enable
    /\ dyn' = slaxDynInit(dyn)
    /\ slaxOriginalXsltDocDefaultLoader' = Save(slaxOriginalXsltDocDefaultLoader, loader)
    /\ loader' = "slaxLoader"
    /\ slaxOriginalEntityLoader' = Save(slaxOriginalEntityLoader, entityLoader)
    /\ entityLoader' = "slaxLoadEntity"
    /\ UNCHANGED <<slaxIncludes, result, forgotten>>

slaxTurnOff ==
    /\ slaxEnabled # 0
    /\ slaxEnabled' = 0
    /\ dyn' = slaxDynClean(dyn)
    /\ slaxIncludes' = << >>
    /\ loader' = "default"
    /\ entityLoader' = slaxOriginalEntityLoader
    /\ UNCHANGED <<slaxOriginalXsltDocDefaultLoader, slaxOriginalEntityLoader,
                   result, forgotten>>

\* Only the way of telling scripts from other files changes.
slaxSwitch(enable) ==
    /\ slaxEnabled # 0
    /\ slaxEnabled' = enable
    /\ UNCHANGED <<loader, entityLoader, slaxOriginalXsltDocDefaultLoader,
                   slaxOriginalEntityLoader, slaxIncludes, dyn, result, forgotten>>

slaxEnable == \E e \in 1 .. 2 : slaxTurnOn(e) \/ slaxSwitch(e)

\* A script, or an import of it, which libxslt asks for by the name escaped.
LoadScript ==
    /\ loader = "slaxLoader"
    /\ \E file \in DOMAIN Scripts, d \in Directories \cup {Bare} :
          LET url == <<d, slaxElementAddEscaped(file[2])>>
              res == slaxLoader(url)
          IN /\ slaxIsSlaxFile(url)
             /\ result' = res
             /\ dyn' = IF res.file = NoFile THEN dyn ELSE LoadedTwice(res.file)
    /\ UNCHANGED <<Hooks, slaxIncludes, forgotten>>

\* A file that is no script goes to the loader that was there before; an
\* entity to the old entity loader, under the name it was found by.
LoadOther ==
    /\ entityLoader = "slaxLoadEntity"
    /\ \E file \in DOMAIN Scripts :
          LET url == <<Bare, file[2]>>
              found == slaxFindIncludeFile(url)
          IN /\ ~slaxIsSlaxFile(url)
             /\ result' = [NoResult EXCEPT !.asked = url,
                              !.file = IF found = NoFile THEN url ELSE found]
    /\ UNCHANGED <<Hooks, slaxIncludes, dyn, forgotten>>

\* The program's own cleanup, before it ends.
CleanLibraries ==
    /\ slaxEnabled # 0
    /\ dyn' = slaxDynClean(dyn)
    /\ UNCHANGED <<Hooks, slaxIncludes, result, forgotten>>

Next ==
    /\ Call
    /\ \/ \E path \in SeqOf(Directories, 2) \ {<< >>} : slaxIncludeAdd(path)
       \/ \E dir \in Directories : AddLibraryPath(dir)
       \/ MarkExslt
       \/ slaxCleanup
       \/ slaxEnable
       \/ slaxTurnOff
       \/ LoadScript
       \/ LoadOther
       \/ CleanLibraries

Spec == Init /\ [][Next]_vars

-----------------------------------------------------------------------------
(* Every library is opened once, and its functions are with libxslt as     *)
(* long as it is open and no longer: a library in the list has one handle, *)
(* a file that is not in it has none.  A shutdown that leaves libraries    *)
(* open forgets them at the next slaxEnable (slaxDynLoadNamespace,         *)
(* slaxDynMarkLoaded, slaxDynInit, slaxDynClean).                          *)
LibrariesHeld ==
    ~forgotten =>
        /\ IsInjective(dyn.libraries)
        /\ \A f \in Files :
              dyn.handles[f] = IF f \in ToSet(dyn.libraries) THEN 1 ELSE 0
        /\ \A f \in dyn.table : dyn.handles[f] = 1

(* However often it is turned on, switched, turned off and shut down, what *)
(* is kept as the original loaders is never our own hook, which would call *)
(* itself for ever; turned on, both hooks are there, and turned off the    *)
(* loaders are the original ones (slaxEnable).  A shutdown leaves the      *)
(* entity loader.                                                          *)
HooksNest ==
    /\ slaxOriginalXsltDocDefaultLoader # "slaxLoader"
    /\ slaxOriginalEntityLoader # "slaxLoadEntity"
    /\ slaxEnabled # 0 <=> loader = "slaxLoader"
    /\ slaxEnabled # 0 => entityLoader = "slaxLoadEntity"
    /\ entityLoader = "slaxLoadEntity" => slaxOriginalEntityLoader # "none"

Findable(uri) == \E i \in DOMAIN dyn.dirs :
    LET d == dyn.dirs[i]
    IN d \in DOMAIN Libraries /\ uri \in DOMAIN Libraries[d]

FirstFile(uri) ==
    LET Has(d) == d \in DOMAIN Libraries /\ uri \in DOMAIN Libraries[d]
    IN <<dyn.dirs[First(dyn.dirs, Has)], uri>>

\* The namespaces of the prefixes that an element says are extensions'.
Designated(node) == {node.ns[p] : p \in ToSet(node.extensions) \cap DOMAIN node.ns}

(* A script that loads has the functions of every extension it declares,   *)
(* in whatever element, or just uses by a well-known prefix: if a library  *)
(* for the namespace can be found and the namespace, not that of SLAX      *)
(* itself, was not tried before, its functions are with libxslt when the   *)
(* script has been loaded (slaxFindNs, slaxMakeStdNs, slaxSetNs,           *)
(* slaxDynLoad).                                                           *)
ExtensionsArrive ==
    [][\A file \in DOMAIN Scripts :
          LET script == Scripts[file]
              wellKnown == {slaxDynFindPrefix(dyn, p) :
                               p \in ToSet(script.uses) \ DOMAIN Declared(script).ns}
              uris == {n.uri : n \in {n \in wellKnown : n.extension}}
                         \cup Designated(Declared(script))
                         \cup UNION {Designated(node) : node \in ToSet(script.inner)}
          IN result' # result /\ result'.file = file /\ result'.ok =>
                \A u \in uris :
                   u \notin ToSet(dyn.loaded) \cup {SlaxUri} /\ Findable(u)
                      /\ Libraries[FirstFile(u)[1]][u].initializer
                      /\ Libraries[FirstFile(u)[1]][u].functions
                   => FirstFile(u) \in dyn'.table]_vars

(* A script that is there is found under the name its import was given,    *)
(* also with blanks and percent signs in it: in the directory named, or in *)
(* the first include directory that has it (slaxElementAddEscaped,         *)
(* slaxLoader, slaxFindIncludeFile).                                       *)
ImportFindsFile ==
    [][\A file \in DOMAIN Scripts :
          result' # result /\ slaxIsSlaxFile(result'.asked)
             /\ result'.asked[2] = slaxElementAddEscaped(file[2])
             /\ (file[1] = result'.asked[1] \/ file[1] \in ToSet(slaxIncludes))
             => result'.file[2] = file[2]]_vars

(* The loading of libraries and the hooks come on and go off together,     *)
(* however calls of slaxEnable and the loading of scripts are mixed.       *)
EnableNests == LibrariesHeld /\ HooksNest

(* A script arrives with everything it names: its imports and the          *)
(* functions of its extensions.                                            *)
ScriptsArrive == ExtensionsArrive /\ ImportFindsFile
=============================================================================
