------------------------- MODULE MCUserAgentBuilder -------------------------
(* A small instance of UserAgentBuilder for TLC. *)
EXTENDS UserAgentBuilder

Info(name, version, os, osVersion, cpu, qt, distro) ==
    [productName |-> name, productVersion |-> version, operatingSystem |-> os,
     operatingSystemVersion |-> osVersion, architecture |-> cpu, qtVersion |-> qt,
     linuxDistro |-> distro]

\* "(" stands for what no token keeps, "d" for a digit that is not ASCII.
MCInfos ==
    {Info(name, <<"1">>, "Linux", <<>>, "Unknown", <<>>, <<" ">>) :
        name \in BoundedSeq({"a", "1", ".", "-", " ", "("}, 4)}
    \cup {Info(<<"a">>, version, os, <<>>, "X64", qt, <<>>) :
        os \in {"Unknown", "MacOS"}, version, qt \in BoundedSeq({"+", "-", " "}, 3)}
    \cup {Info(<<"a">>, <<>>, os, version, cpu, <<"6">>, <<>>) :
        os \in {"Windows", "MacOS"}, cpu \in Architectures,
        version \in BoundedSeq({"1", "d", ".", "_", " "}, 4)}

Lines(keys, names) ==
    {[key |-> k, name |-> n, quote |-> q] : k \in keys, n \in names, q \in Quotes}

\* Linux with every short name, and with other lines around it; the others with
\* versions of one to three numbers, or none.
MCMachines ==
    {[operatingSystem |-> "Linux", version |-> [major |-> -1, minor |-> -1, micro |-> -1],
      cpu |-> "riscv64", osRelease |-> lines] :
        lines \in {<<line>> : line \in Lines({"NAME"}, BoundedSeq({"a", " ", "\"", "'", "\\"}, 4))}
                  \cup BoundedSeq(Lines({"PRETTY_NAME", "NAME"}, {<<"a">>, <<"\\">>})
                                  \cup {[key |-> "NAME", name |-> <<"1">>, quote |-> "none"]}, 2)}
    \cup {[operatingSystem |-> os, version |-> [major |-> a, minor |-> b, micro |-> c],
           cpu |-> cpu, osRelease |-> <<>>] :
        os \in {"Windows", "MacOS", "Unknown"}, a, b, c \in -1..1,
        cpu \in {"amd64", "x86", "arm64", "arm"}}

MCProducts == {[name |-> <<"a">>, version |-> <<"1">>], [name |-> <<" ">>, version |-> <<>>]}
=============================================================================
