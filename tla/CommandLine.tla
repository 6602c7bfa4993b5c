----------------------------- MODULE CommandLine ----------------------------
(***************************************************************************)
(* The command line: proc_argv() of src/tbconvert.c, word by word.  Words  *)
(* are told apart as far as the code does; what it prints is left out.     *)
(***************************************************************************)
EXTENDS Integers, Sequences

CONSTANTS
    Argvs,    \* the command lines that are considered, without the program's
              \* name
    Upper,    \* for each word: toupper() of as many letters as outformat holds
    Cut       \* for each word: as many letters of it as OutPath holds

Empty == ""         \* the word without letters
NoFile == "no file"

ASSUME ArgvsAssumption ==
    /\ Argvs \subseteq Seq(STRING)
    /\ \A a \in Argvs : \A k \in DOMAIN a : a[k] # NoFile
    /\ \A a \in Argvs : \A k \in DOMAIN a :
          /\ Upper[a[k]] = Empty <=> a[k] = Empty
          /\ Cut[a[k]] = Empty <=> a[k] = Empty

VARIABLES
    argv,
    i,           \* the word the loop is at: argv[i]
    parse,       \* "words" (the loop), "format" (the checks after it),
                 \* "parsed" (0), "usage" (-1), "quit" (exit(0)), "crashed"
    outformat,   \* Empty as long as none was given
    OutPath,
    InputFile,   \* NoFile for NULL
    ConvFormat

argvars == <<argv, i, parse, outformat, OutPath, InputFile, ConvFormat>>

ArgvInit(words) ==
    /\ argv = words
    /\ i = 1 /\ parse = "words"
    /\ outformat = Empty /\ OutPath = Empty /\ InputFile = NoFile /\ ConvFormat = "SAC"

Options == {"-v", "-h", "-f", "-o"}

AtWord == parse = "words" /\ i <= Len(argv) /\ UNCHANGED <<argv, ConvFormat>>

\* -v and -h end the program.
Quit ==
    /\ AtWord
    /\ argv[i] \in {"-v", "-h"}
    /\ parse' = "quit"
    /\ UNCHANGED <<i, outformat, OutPath, InputFile>>

\* Slip: the value is looked at again.
ValueReadAgain ==
    /\ AtWord
    /\ argv[i] = "-f" /\ i < Len(argv)
    /\ outformat' = Upper[argv[i+1]]
    /\ i' = i + 1
    /\ UNCHANGED <<parse, OutPath, InputFile>>

\* -f takes the next word, whatever it is.
TakeFormat ==
    /\ AtWord
    /\ argv[i] = "-f" /\ i < Len(argv)
    /\ outformat' = Upper[argv[i+1]]
    /\ i' = i + 2
    /\ UNCHANGED <<parse, OutPath, InputFile>>

\* So does -o.  A path that is too long is cut without a word.
TakePath ==
    /\ AtWord
    /\ argv[i] = "-o" /\ i < Len(argv)
    /\ OutPath' = Cut[argv[i+1]]
    /\ i' = i + 2
    /\ UNCHANGED <<parse, outformat, InputFile>>

\* argv[argc], a null pointer, is copied.
TakeNothing ==
    /\ AtWord
    /\ argv[i] \in {"-f", "-o"} /\ i = Len(argv)
    /\ parse' = "crashed"
    /\ UNCHANGED <<i, outformat, OutPath, InputFile>>

\* Any other last word is the input file.
TakeInput ==
    /\ AtWord
    /\ argv[i] \notin Options /\ i = Len(argv)
    /\ InputFile' = argv[i]
    /\ i' = i + 1
    /\ UNCHANGED <<parse, outformat, OutPath>>

UnknownOption ==
    /\ AtWord
    /\ argv[i] \notin Options /\ i < Len(argv)
    /\ parse' = "usage"
    /\ UNCHANGED <<i, outformat, OutPath, InputFile>>

NoInput ==
    /\ parse = "words" /\ i > Len(argv)
    /\ InputFile = NoFile
    /\ parse' = "usage"
    /\ UNCHANGED <<argv, i, outformat, OutPath, InputFile, ConvFormat>>

\* SAC is the default.
DefaultFormat ==
    /\ parse = "words" /\ i > Len(argv)
    /\ InputFile # NoFile
    /\ outformat' = IF outformat = Empty THEN "SAC" ELSE outformat
    /\ parse' = "format"
    /\ UNCHANGED <<argv, i, OutPath, InputFile, ConvFormat>>

SetFormat ==
    /\ parse = "format"
    /\ outformat \in {"SAC", "MSEED", "MSEED3"}
    /\ ConvFormat' = outformat
    /\ parse' = "parsed"
    /\ UNCHANGED <<argv, i, outformat, OutPath, InputFile>>

UnknownFormat ==
    /\ parse = "format"
    /\ outformat \notin {"SAC", "MSEED", "MSEED3"}
    /\ parse' = "usage"
    /\ UNCHANGED <<argv, i, outformat, OutPath, InputFile, ConvFormat>>

ArgvNext ==
    \/ Quit \/ TakeFormat \/ TakePath \/ TakeNothing \/ TakeInput \/ UnknownOption
    \/ NoInput \/ DefaultFormat \/ SetFormat \/ UnknownFormat

ArgvSpec == (\E words \in Argvs : ArgvInit(words)) /\ [][ArgvNext]_argvars

-----------------------------------------------------------------------------
\* The command line the usage message describes: options with their values,
\* then the input file; the last -f names a format.
Odd(x) == x % 2 = 1
Pairs(n) == \A x \in 1..n : Odd(x) => argv[x] \in {"-f", "-o"}
Values(o) == {x + 1 : x \in {y \in 1..Len(argv)-2 : Odd(y) /\ argv[y] = o}}
Given(o, default) ==
    IF Values(o) = {} THEN default
    ELSE argv[CHOOSE x \in Values(o) : \A y \in Values(o) : y <= x]
Path   == IF Given("-o", Empty) = Empty THEN Empty ELSE Cut[Given("-o", Empty)]
Format == IF Given("-f", Empty) = Empty THEN "SAC" ELSE Upper[Given("-f", Empty)]

AsDescribed ==
    /\ Odd(Len(argv)) /\ Pairs(Len(argv) - 1)
    /\ argv[Len(argv)] \notin Options
    /\ Format \in {"SAC", "MSEED", "MSEED3"}

\* A command line is accepted exactly if it is as the usage message says, and
\* then the file, the path and the format are those it names, the last of each
\* option, the path as far as there is room for it; it takes the program down
\* exactly if a value is missing at its end (tbconvert.c:308-364, 369-391).
ArgvUnderstood ==
    /\ parse = "parsed" =>
          /\ AsDescribed
          /\ InputFile = argv[Len(argv)] /\ OutPath = Path /\ ConvFormat = Format
    /\ parse \in {"usage", "quit", "crashed"} => ~AsDescribed
    /\ parse = "crashed" => argv[Len(argv)] \in {"-f", "-o"} /\ Odd(Len(argv)) /\ Pairs(Len(argv))
=============================================================================
