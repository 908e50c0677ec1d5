-------------------------- MODULE UserAgentBuilder --------------------------
(***************************************************************************)
(* The User-Agent string of a desktop application: what is read from the   *)
(* machine, what a host may put in its place, and the text made of it.     *)
(* A text is a sequence of characters; a word that the code only copies is *)
(* one character of it.                                                    *)
(***************************************************************************)
EXTENDS Integers, Sequences, SequencesExt

CONSTANTS
    AlphaNumeric, \* the ASCII letters and digits that occur
    Digits,       \* QChar::isDigit(), ASCII or not
    Spaces,       \* QChar::isSpace()
    Machines,     \* what the operating system may say of itself
    Products,     \* the names and versions a host may have
    Infos         \* the infos a host may fill in itself

OperatingSystems == {"Unknown", "Windows", "MacOS", "Linux"}
Architectures == {"Unknown", "X86", "X64", "Arm", "Arm64"}

Punctuation == {".", "_", "+"}
Quotes == {"\"", "'"}

ASSUME CharacterAssumption ==
    /\ " " \in Spaces
    /\ Spaces \cap (AlphaNumeric \cup Digits) = {}
    /\ (Punctuation \cup Quotes \cup {"-", "\\"}) \cap (Spaces \cup AlphaNumeric \cup Digits) = {}
    /\ {"/", ")", "; "} \cap (AlphaNumeric \cup Digits) = {}

IsText(s) == s \in Seq(Range(s))

\* What a host may give is text, of a system and a CPU the code tells apart.
ASSUME HostAssumption ==
    /\ \A p \in Products : IsText(p.name) /\ IsText(p.version)
    /\ \A i \in Infos :
        /\ i.operatingSystem \in OperatingSystems /\ i.architecture \in Architectures
        /\ IsText(i.productName) /\ IsText(i.productVersion) /\ IsText(i.qtVersion)
        /\ IsText(i.operatingSystemVersion) /\ IsText(i.linuxDistro)

\* A machine has one of the systems, and /etc/os-release names the distribution
\* as its format says: a value with quotes or backslashes is itself in quotes.
ASSUME MachineAssumption ==
    \A m \in Machines :
        /\ m.operatingSystem \in OperatingSystems
        /\ m.osRelease \in Seq(Range(m.osRelease))
        /\ \A n \in DOMAIN m.osRelease :
            LET line == m.osRelease[n]
            IN  /\ IsText(line.name)
                /\ line.quote \in Quotes \/ Range(line.name) \cap (Quotes \cup {"\\"}) = {}

VARIABLES
    machine,  \* history: the machine the info was read from, if any
    info,     \* the UserAgentInfo
    userAgent \* what was built of it

vars == <<machine, info, userAgent>>

----------------------------------------------------------------------------
(* Texts.                                                                  *)

\* The text without the characters of outer at its ends.
Inner(s, outer) ==
    LET places == {i \in DOMAIN s : s[i] \notin outer}
    IN  IF places = {} THEN <<>> ELSE SubSeq(s, Min(places), Max(places))

\* QString::trimmed()
Trimmed(s) == Inner(s, Spaces)

\* Fault: a separator may come first, or after another.
AddAnywhere(t, c, kept, separators, separator) ==
    IF c \in kept THEN Append(t, c) ELSE IF c \in separators THEN Append(t, separator) ELSE t

\* A turn of the loop of tokenPart() and osVersionPart(): lastWasSeparator is set
\* exactly when the text that grows ends with one.
Add(t, c, kept, separators, separator) ==
    IF c \in kept THEN Append(t, c)
    ELSE IF c \in separators /\ t # <<>> /\ Last(t) # separator THEN Append(t, separator)
    ELSE t

\* The text after each of the turns.
JoinedTurns(s, kept, separators, separator) ==
    LET after[n \in 0..Len(s)] ==
            IF n = 0 THEN <<>> ELSE Add(after[n - 1], s[n], kept, separators, separator)
    IN  after

Joined(s, kept, separators, separator) ==
    LET value == Trimmed(s)
    IN  Inner(JoinedTurns(value, kept, separators, separator)[Len(value)], {separator})

TokenPart(s) == Joined(s, AlphaNumeric \cup Punctuation, Spaces \cup {"-"}, "-")

OsVersionPart(s, separator) == Joined(s, Digits, {".", "_"}, separator)

----------------------------------------------------------------------------
(* The text that is built.                                                 *)

\* Fault: the slash comes whether or not there is a version.
ProductTokenWithSlash(i) ==
    LET name == TokenPart(i.productName)
    IN  IF name = <<>> THEN <<>> ELSE name \o <<"/">> \o TokenPart(i.productVersion)

ProductToken(i) ==
    LET name == TokenPart(i.productName)
        version == TokenPart(i.productVersion)
    IN  IF name = <<>> \/ version = <<>> THEN name ELSE name \o <<"/">> \o version

QtToken(s) == LET version == TokenPart(s) IN IF version = <<>> THEN <<>> ELSE <<"Qt", "/">> \o version

\* joinTokens(), of one token more: an empty one takes no blank.
JoinTokens(text, token) ==
    IF token = <<>> THEN text ELSE IF text = <<>> THEN token ELSE text \o <<" ">> \o token

\* Fault: everything up to the second dot, and the dot.
WindowsNtVersionWithDot(s) ==
    LET version == OsVersionPart(s, ".")
        ends == {i \in DOMAIN version : Cardinality({j \in 1..i : version[j] = "."}) = 2}
    IN  IF ends = {} THEN version ELSE SubSeq(version, 1, Min(ends))

\* At most two components.
WindowsNtVersion(s) ==
    LET version == OsVersionPart(s, ".")
        ends == {i \in DOMAIN version : Cardinality({j \in 1..i : version[j] = "."}) = 2}
    IN  IF ends = {} THEN version ELSE SubSeq(version, 1, Min(ends) - 1)

WindowsComment(i) ==
    LET version == WindowsNtVersion(i.operatingSystemVersion)
    IN  <<"Windows NT ">> \o (IF version = <<>> THEN <<"10.0">> ELSE version)
        \o (CASE i.architecture \in {"X64", "Arm64"} -> <<"; ", "Win64", "; ", "x64">>
              [] i.architecture = "Arm" -> <<"; ", "ARM">>
              [] OTHER -> <<>>)

MacComment(i) ==
    LET version == OsVersionPart(i.operatingSystemVersion, "_")
    IN  <<"Macintosh", "; ", IF i.architecture \in {"Arm", "Arm64"} THEN "ARM" ELSE "Intel", " Mac OS X">>
        \o (IF version = <<>> THEN <<>> ELSE <<" ">> \o version)

\* The distribution goes in after the first "; ", which is always there.
LinuxComment(i) ==
    LET platform == [X86 |-> "Linux i686", Arm |-> "Linux armv7l", Arm64 |-> "Linux aarch64",
                     X64 |-> "Linux x86_64", Unknown |-> "Linux"]
        distro == Trimmed(i.linuxDistro)
    IN  <<"X11", "; ">> \o (IF distro = <<>> THEN <<>> ELSE distro \o <<"; ">>)
        \o <<platform[i.architecture]>>

DesktopPlatformComment(i) ==
    CASE i.operatingSystem = "Windows" -> WindowsComment(i)
      [] i.operatingSystem = "MacOS" -> MacComment(i)
      [] i.operatingSystem = "Linux" -> LinuxComment(i)
      [] i.operatingSystem = "Unknown" -> <<>>

BuildDesktopUserAgent(i) ==
    LET comment == DesktopPlatformComment(i)
        product == ProductToken(i)
        first == IF comment = <<>> THEN <<>> ELSE <<"Mozilla/5.0 (">> \o comment \o <<")">>
    IN  IF product = <<>> THEN <<>>
        ELSE JoinTokens(JoinTokens(first, product), QtToken(i.qtVersion))

----------------------------------------------------------------------------
(* What is read from the machine.                                          *)

\* /etc/os-release as a sequence of lines, each of a key, a name and how the
\* name is written: as it is, or in quotes with quotes and backslashes escaped.
Escape(text, c) == text \o (IF c \in Quotes \cup {"\\"} THEN <<"\\", c>> ELSE <<c>>)

EscapeTurns(name) ==
    LET after[n \in 0..Len(name)] == IF n = 0 THEN <<>> ELSE Escape(after[n - 1], name[n])
    IN  after

Written(line) ==
    IF line.quote \in Quotes
    THEN <<line.quote>> \o EscapeTurns(line.name)[Len(line.name)] \o <<line.quote>>
    ELSE line.name

\* A number below zero is one that is not known.
CurrentOsVersion(version) ==
    LET known(v) == IF v < 0 THEN <<>> ELSE <<".", ToString(v)>>
    IN  IF version.major < 0 THEN <<>>
        ELSE <<ToString(version.major)>> \o known(version.minor) \o known(version.micro)

Unquoted(s) ==
    IF Len(s) >= 2 /\ s[1] \in Quotes /\ Last(s) = s[1] THEN SubSeq(s, 2, Len(s) - 1) ELSE s

\* Fault: every backslash goes.
UnescapeDropping(read, c) ==
    IF c = "\\" THEN read ELSE [text |-> Append(read.text, c), escaping |-> FALSE]

Unescape(read, c) ==
    IF ~read.escaping /\ c = "\\" THEN [text |-> read.text, escaping |-> TRUE]
    ELSE [text |-> Append(read.text, c), escaping |-> FALSE]

UnescapeTurns(s) ==
    LET after[n \in 0..Len(s)] ==
            IF n = 0 THEN [text |-> <<>>, escaping |-> FALSE] ELSE Unescape(after[n - 1], s[n])
    IN  after

UnquoteOsReleaseValue(s) ==
    LET value == Unquoted(Trimmed(s))
        read == UnescapeTurns(value)[Len(value)]
    IN  Trimmed(IF read.escaping THEN Append(read.text, "\\") ELSE read.text)

\* The lines that start with NAME=.
NameLines(lines) == {n \in DOMAIN lines : lines[n].key = "NAME"}

\* The first of them is read; without a file there are no lines.
LinuxDistroFromOsRelease(lines) ==
    IF NameLines(lines) = {} THEN <<>>
    ELSE UnquoteOsReleaseValue(Written(lines[Min(NameLines(lines))]))

\* An architecture as Qt names it, in lower case.
ArchitectureFromQt(cpu) ==
    CASE cpu \in {"x86_64", "amd64"} -> "X64"
      [] cpu \in {"i386", "i486", "i586", "i686", "x86"} -> "X86"
      [] cpu \in {"arm64", "aarch64"} -> "Arm64"
      [] cpu \in {"arm", "armv7l"} -> "Arm" \* all else that starts with "arm"
      [] OTHER -> "Unknown"

CurrentDesktopInfo(m, p) ==
    /\ info = {}
    /\ machine' = {m}
    /\ info' = {[productName |-> p.name, productVersion |-> p.version,
                 operatingSystem |-> m.operatingSystem,
                 operatingSystemVersion |-> CurrentOsVersion(m.version),
                 architecture |-> ArchitectureFromQt(m.cpu),
                 qtVersion |-> <<"6">>,
                 linuxDistro |-> IF m.operatingSystem = "Linux"
                                 THEN LinuxDistroFromOsRelease(m.osRelease) ELSE <<>>]}
    /\ UNCHANGED userAgent

----------------------------------------------------------------------------

\* The host fills in an info itself.
HostInfo(i) ==
    /\ info = {}
    /\ info' = {i}
    /\ UNCHANGED <<machine, userAgent>>

Build ==
    /\ userAgent = {}
    /\ \E i \in info : userAgent' = {BuildDesktopUserAgent(i)}
    /\ UNCHANGED <<machine, info>>

\* The host has the text.
Return ==
    /\ userAgent # {}
    /\ machine' = {} /\ info' = {} /\ userAgent' = {}

Init == machine = {} /\ info = {} /\ userAgent = {}

Next ==
    \/ \E m \in Machines, p \in Products : CurrentDesktopInfo(m, p)
    \/ \E i \in Infos : HostInfo(i)
    \/ Build
    \/ Return

Spec == Init /\ [][Next]_vars

----------------------------------------------------------------------------
(* Properties.                                                             *)

\* t is s with its separators made alike.  Every character of t stands for one of
\* s, in the same order; every one that is kept has one that stands for it; and
\* between two of them is a separator exactly when s has any there.
Normalises(t, s, kept, separators, separator) ==
    /\ t \in Seq(kept \cup {separator})
    /\ \E from \in [DOMAIN t -> DOMAIN s] :
        /\ \A j, k \in DOMAIN t : j < k => from[j] < from[k]
        /\ \A i \in DOMAIN s : s[i] \in kept => \E j \in DOMAIN t : from[j] = i
        /\ \A j \in DOMAIN t :
            \/ t[j] \in kept /\ s[from[j]] = t[j]
            \/ /\ t[j] = separator /\ s[from[j]] \in separators
               /\ {j - 1, j + 1} \subseteq DOMAIN t /\ {t[j - 1], t[j + 1]} \subseteq kept
        /\ \A j \in 1..(Len(t) - 1) : {t[j], t[j + 1]} \subseteq kept =>
            \A i \in from[j]..from[j + 1] : s[i] \notin separators

\* A product name or version becomes its words, joined by single hyphens, and a
\* version of the system its numbers, joined by single separators, whatever
\* stood between, before and after them: nothing else is lost or added.
TokensFaithful ==
    \A i \in info :
        /\ \A s \in {i.productName, i.productVersion, i.qtVersion} :
            Normalises(TokenPart(s), s, AlphaNumeric \cup Punctuation, Spaces \cup {"-"}, "-")
        /\ \A separator \in {".", "_"} :
            Normalises(OsVersionPart(i.operatingSystemVersion, separator),
                       i.operatingSystemVersion, Digits, {".", "_"}, separator)

\* The comment of a User-Agent ends with the last parenthesis.
AfterComment(ua) ==
    LET ends == {j \in DOMAIN ua : ua[j] = ")"}
    IN  IF ends = {} THEN ua ELSE SubSeq(ua, Max(ends) + 2, Len(ua))

\* A User-Agent is empty exactly when the product has no name.  Else its products
\* are tokens that a reader of User-Agents tells apart: no blank, slash or hyphen
\* comes first, last or beside another.
UserAgentWellFormed ==
    \A ua \in userAgent, i \in info :
        LET words == AfterComment(ua)
            Loose(j) == j \notin DOMAIN words \/ words[j] \in {" ", "/", "-"}
        IN  /\ ua = <<>> <=> TokenPart(i.productName) = <<>>
            /\ ua # <<>> => words # <<>> /\ \A j \in 0..Len(words) : ~(Loose(j) /\ Loose(j + 1))

\* "[Matomo's NT-version map] only expect[s] Windows NT <major>.<minor>": whatever
\* version Windows gives of itself or a host puts in its place, the comment has
\* one or two numbers for it, the first of those given, or 10.0.
WindowsVersionKnown ==
    \A ua \in userAgent, i \in info :
        i.operatingSystem = "Windows" /\ ua # <<>> =>
            LET end == Min({j \in DOMAIN ua : ua[j] \in {")", "; "}})
                version == SubSeq(ua, 3, end - 1)
            IN  \/ version = <<"10.0">> /\ \A j \in DOMAIN i.operatingSystemVersion :
                                                i.operatingSystemVersion[j] \notin Digits
                \/ /\ version # <<>> /\ {version[1], Last(version)} \subseteq Digits
                   /\ Cardinality({j \in DOMAIN version : version[j] \notin Digits}) <= 1
                   /\ IsPrefix(version, OsVersionPart(i.operatingSystemVersion, "."))

\* A User-Agent made on a Linux machine names the distribution as its os-release
\* does, whichever way the name is quoted, escaped and surrounded by other keys.
DistroAsNamed ==
    \A m \in machine, ua \in userAgent :
        LET names == NameLines(m.osRelease)
            name == IF names = {} THEN <<>> ELSE Trimmed(m.osRelease[Min(names)].name)
        IN  m.operatingSystem = "Linux" /\ ua # <<>> =>
                SubSeq(ua, 1, Len(name) + 4)
                = <<"Mozilla/5.0 (", "X11", "; ">>
                  \o (IF name = <<>> THEN <<ua[4]>> ELSE Append(name, "; "))
=============================================================================
