------------------------------ MODULE SlaxDyn ------------------------------
(***************************************************************************)
(* Extension libraries (libslax/slaxdyn.c) and the namespaces that name    *)
(* them (slaxSetNs, slaxMakeStdNs and slaxFindNs in libslax/slaxtree.c).   *)
(*                                                                         *)
(* The lists of slaxdyn.c are a record: if they were set up, the           *)
(* directories to search, the namespaces tried and the libraries open.     *)
(* With them go the handles dlopen gave, counted per file, and the files   *)
(* whose functions and elements libxslt has for a namespace.               *)
(***************************************************************************)
EXTENDS Integers, SequencesExt

CONSTANTS
    Libraries,      \* directory -> namespace -> what the library file has
    PrefixLinks,       \* directory -> prefix -> the namespace its link names
    Environment,    \* the directories of SLAX_EXTDIR in the environment
    BuiltinDir,     \* SLAX_EXTDIR, as compiled in
    SlaxUri

NoDirectory == "none"
NoNamespace == [uri |-> "none", extension |-> FALSE]

Files == UNION {{<<d, u>> : u \in DOMAIN Libraries[d]} : d \in DOMAIN Libraries}

Nothing ==
    [inited |-> FALSE, dirs |-> << >>, loaded |-> << >>, libraries |-> << >>,
     handles |-> [f \in Files |-> 0], table |-> {}]

-----------------------------------------------------------------------------
\* Environment directories go first, then what was compiled in, each time.
slaxDynInit(dyn) ==
    [dyn EXCEPT !.inited = TRUE, !.loaded = << >>, !.libraries = << >>,
                !.dirs = (IF dyn.inited THEN @ ELSE << >>)
                            \o Environment \o <<BuiltinDir>>]

slaxDynAdd(dyn, dir) ==
    LET ready == IF dyn.inited THEN dyn ELSE slaxDynInit(dyn)
    IN [ready EXCEPT !.dirs = Append(@, dir)]

\* Wrong: what was tried is not remembered.
MarkNever(dyn, uri) == [known |-> uri = SlaxUri, dyn |-> dyn]

slaxDynMarkLoaded(dyn, uri) ==
    IF uri = SlaxUri \/ uri \in ToSet(dyn.loaded) THEN [known |-> TRUE, dyn |-> dyn]
    ELSE [known |-> FALSE, dyn |-> [dyn EXCEPT !.loaded = Append(@, uri)]]

\* The URIs of the code end in ".ext", which no namespace does.
slaxDynMarkExslt(dyn) == slaxDynMarkLoaded(dyn, "exslt.ext").dyn

First(dirs, Test(_)) ==
    IF \E i \in DOMAIN dirs : Test(dirs[i])
    THEN SelectInSeq(dirs, Test)
    ELSE 0

\* The first file for the namespace. One with no initializer is closed again.
slaxDynLoadNamespace(dyn, uri) ==
    LET mark == slaxDynMarkLoaded(dyn, uri)
        HasFile(d) == d \in DOMAIN Libraries /\ uri \in DOMAIN Libraries[d]
        i == First(dyn.dirs, HasFile)
        file == <<dyn.dirs[i], uri>>
    IN IF mark.known \/ i = 0 \/ ~Libraries[dyn.dirs[i]][uri].initializer THEN mark.dyn
       ELSE [mark.dyn EXCEPT
                !.libraries = Append(@, file), !.handles[file] = @ + 1,
                !.table = IF Libraries[dyn.dirs[i]][uri].functions THEN @ \cup {file} ELSE @]

\* The namespaces an element's extension-element-prefixes designate.
slaxDynExtensionPrefixes(node) ==
    LET found[i \in 0 .. Len(node.extensions)] ==
            LET prefix == node.extensions[i]
            IN IF i = 0 THEN << >>
               ELSE IF prefix \in DOMAIN node.ns THEN Append(found[i - 1], node.ns[prefix])
               ELSE found[i - 1]
    IN found[Len(node.extensions)]

\* The root's and then, from first to last, those of the elements in it.
slaxDynFindNamespaces(root, inner) ==
    slaxDynExtensionPrefixes(root)
        \o FlattenSeq([i \in DOMAIN inner |-> slaxDynExtensionPrefixes(inner[i])])

slaxDynLoad(dyn, root, inner) ==
    LET uris == slaxDynFindNamespaces(root, inner)
        after[i \in 0 .. Len(uris)] ==
            IF i = 0 THEN dyn ELSE slaxDynLoadNamespace(after[i - 1], uris[i])
    IN after[Len(uris)]

\* Where the prefix's link leads; it names an extension if it ends in ".ext".
slaxDynFindPrefix(dyn, prefix) ==
    LET HasLink(d) == d \in DOMAIN PrefixLinks /\ prefix \in DOMAIN PrefixLinks[d]
        i == First(dyn.dirs, HasLink)
    IN IF i = 0 THEN NoNamespace ELSE PrefixLinks[dyn.dirs[i]][prefix]

slaxDynClean(dyn) ==
    [dyn EXCEPT !.dirs = IF dyn.inited THEN << >> ELSE @,
                !.loaded = << >>, !.libraries = << >>,
                !.handles = [f \in Files |->
                    @[f] - Cardinality({i \in DOMAIN dyn.libraries : dyn.libraries[i] = f})],
                !.table = {f \in @ : ~\E i \in DOMAIN dyn.libraries : dyn.libraries[i][2] = f[2]}]

-----------------------------------------------------------------------------
(* Namespaces of a document's root: a function of prefixes, and which of   *)
(* them are extensions.                                                    *)

\* With a prefix more.
xmlNewNs(ns, prefix, uri) ==
    [p \in DOMAIN ns \cup {prefix} |-> IF p = prefix THEN uri ELSE ns[p]]

\* Wrong: the prefix is not said to be an extension's.
SetNsPlain(root, prefix, uri, is_extension) ==
    IF prefix \in DOMAIN root.ns THEN root ELSE [root EXCEPT !.ns = xmlNewNs(@, prefix, uri)]

slaxSetNs(root, prefix, uri, is_extension) ==
    IF prefix \in DOMAIN root.ns THEN root
    ELSE [root EXCEPT !.ns = xmlNewNs(@, prefix, uri),
                      !.extensions = IF is_extension THEN Append(@, prefix) ELSE @]

slaxMakeStdNs(dyn, root, prefix) ==
    LET found == slaxDynFindPrefix(dyn, prefix)
    IN IF found = NoNamespace THEN root
       ELSE slaxSetNs(root, prefix, found.uri, found.extension)

\* A prefix that is not declared may be a well-known one.
slaxFindNs(dyn, root, prefix) ==
    IF prefix \in DOMAIN root.ns THEN root ELSE slaxMakeStdNs(dyn, root, prefix)
=============================================================================
