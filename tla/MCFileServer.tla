---------------------------- MODULE MCFileServer ----------------------------
EXTENDS FileServer

Abs(names) == [abs |-> TRUE, names |-> names]
Rel(names) == [abs |-> FALSE, names |-> names]

\* A file of the current directory, and one of the directory d; the root, d, and
\* the directory above the current one.
MCFilePaths == {Rel(<<"a">>), Abs(<<"d", "b">>)}
MCDirPaths  == {Abs(<<>>), Abs(<<"d">>), Rel(<<"..">>)}

OneFile == {Rel(<<"a">>)}
TwoDirs == {Abs(<<>>), Abs(<<"d">>)}

\* Nothing behind the end of a path, or a name.
MCBehind == {<<>>}
DotDot   == {<<"..">>}
=============================================================================
