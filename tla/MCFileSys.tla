------------------------------ MODULE MCFileSys ------------------------------
(* Small instances of FileSys: process 1 is root, process 2 another user. *)
EXTENDS FileSys, TLC

UidConst == <<0, 1>>

\* A directory of the image (/home/root, /etc, ...) that is the processes' own, with
\* nothing in it, with a file, or with a directory.
Base == [name |-> "a", in |-> ROOTINO, type |-> "dir"]
InBase(type) == [name |-> "a", in |-> 2, type |-> type]

Program(image, paths, c1, c2) == [image |-> image, cwd |-> 2, paths |-> paths, calls |-> <<c1, c2>>]

\* Directories made and removed by both; removed under the other's current directory; a
\* file linked and unlinked while it is opened and read; link() against unlink(); modes and
\* owners changed while the file is opened; devices made; open(O_CREATE).
ProgramsConst ==
    LET a == <<"a">>
        b == <<"b">>
    IN  { Program(<<Base>>, {a, <<"a", "b">>}, {"mkdir", "unlink"}, {"unlink"}),
          Program(<<Base>>, {a}, {"mkdir", "unlink"}, {"chdir", "mkdir"}),
          Program(<<Base, InBase("file")>>, {a, b}, {"link", "unlink"}, {"open", "read", "close"}),
          Program(<<Base, InBase("file")>>, {a, b, <<"b", "b">>}, {"link"}, {"unlink"}),
          Program(<<Base, InBase("file")>>, {a}, {"chmod", "chown", "unlink"},
                  {"open", "write", "close", "chmod"}),
          Program(<<Base>>, {b, <<"/", "b">>}, {"mknod", "unlink"}, {"exec"}),
          Program(<<Base>>, {a}, {"open"}, {"unlink"}) }

\* unlink() against two that close the file; open(O_CREATE) alone.
UnlinkPrograms == {Program(<<Base, InBase("file")>>, {<<"a">>}, {"unlink", "open", "close"}, {"open", "close"})}
CreatePrograms == {Program(<<Base>>, {<<"a">>}, {"open"}, {})}
=============================================================================
