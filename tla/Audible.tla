------------------------------- MODULE Audible -------------------------------
(***************************************************************************)
(* The audio filter "Audible" (Audible/src: main.c, hw1.c, audio.c,        *)
(* audioHelper.c, transformations.c, myrand.c): one process reads a Sun    *)
(* audio file from stdin, speeds it up, slows it down or (de)crypts it,    *)
(* and writes the result to stdout, frame by frame.  A pipeline of two     *)
(* processes undoes a transformation.                                      *)
(*                                                                         *)
(* A file is its header, its annotation and the bytes of its audio data.   *)
(* A byte has ByteBits bits instead of 8 and an int four such bytes, with  *)
(* the boundaries where the code has them.                                 *)
(***************************************************************************)
EXTENDS AudibleArgs, SequencesExt

CONSTANTS
    Multiplier, Increment,  \* of myrand: 1103515245 and 12345
    ANNOTATION_MAX,         \* size of the annotation buffers: 1024
    AUDIO_MAGIC,
    CommandLines, Files     \* what the program may be started with


PCM8_ENCODING == 2
PCM32_ENCODING == 5
HeaderSize == 24            \* sizeof(AUDIO_HEADER)

FileType ==
    [magic : 0..(Word - 1), data_offset : 0..(Word - 1), data_size : 0..(Word - 1),
     encoding : 0..(Word - 1), sample_rate : 0..(Word - 1), channels : 0..(Word - 1),
     text : Seq(Seq(DOMAIN Characters)), complete : BOOLEAN, data : Seq(0..(Base - 1))]

ASSUME AudibleAssumption ==
    /\ ANNOTATION_MAX \in Nat /\ ANNOTATION_MAX + HeaderSize < Word
    /\ Multiplier \in Nat /\ Increment \in Nat
    /\ CommandLines \subseteq Seq(DOMAIN Characters) \ {<<>>}
    /\ Files \subseteq FileType

\* An integer as the unsigned int it wraps to.
Unsigned(x) == x % Word

\* Division in C rounds towards zero.
Magnitude(x) == IF x < 0 THEN -x ELSE x
Quotient(a, b) ==
    LET q == Magnitude(a) \div Magnitude(b) IN IF (a < 0) = (b < 0) THEN q ELSE -q

VARIABLES
    argv,       \* the command line; argv[1] is the program
    stdin,      \* the file the process reads
    global_options,
    header,     \* of recode, as read and then changed
    frames, i,  \* the number of frames, and those the loop has done
    position,   \* bytes of the audio data read
    S,          \* the frame slowDown carries to its next call
    next,       \* state of myrand
    stdout,     \* the file written so far; its magic is 0 before the header
    pc,         \* "main", "read", "annotate", "loop" or "exit"
    status,     \* how the process ended
    source      \* the command line and file of the process before this one

vars == <<argv, stdin, global_options, header, frames, i, position, S, next,
          stdout, pc, status, source>>

-----------------------------------------------------------------------------
(* Bytes and integers.                                                     *)

BytesPerSample == header.encoding - 1
FrameSize == header.channels * BytesPerSample

\* n bytes from position p.  The end of the file gives 0, and so do four
\* bytes of ones, which are EOF when they are one int.
getStdinInt(bytes, p, n) ==
    LET value[k \in 0..n] == IF k = 0 THEN 0 ELSE value[k - 1] * Base + bytes[p + k]
    IN  IF p + n > Len(bytes) \/ value[n] = Word - 1 THEN 0 ELSE value[n]

signExtend(x, n) == IF x < Power(Base, n) \div 2 THEN x ELSE x - Power(Base, n)

\* Mutant: least significant byte first.
putByteIntReversed(x, n) == [k \in 1..n |-> (x \div Power(Base, k - 1)) % Base]

putByteInt(x, n) == [k \in 1..n |-> (x \div Power(Base, n - k)) % Base]

read_frame(p) ==
    [c \in 1..header.channels |->
        signExtend(getStdinInt(stdin.data, p + (c - 1) * BytesPerSample, BytesPerSample),
                   BytesPerSample)]

write_frame(frame) ==
    [k \in 1..FrameSize |->
        putByteInt(frame[((k - 1) \div BytesPerSample) + 1], BytesPerSample)
            [((k - 1) % BytesPerSample) + 1]]

-----------------------------------------------------------------------------
(* Header and annotation.  An annotation is a sequence of lines of words   *)
(* and fills data_offset - HeaderSize bytes with trailing zeros.           *)

\* What one field of the header is read as.
Field(x) == IF x = Word - 1 THEN 0 ELSE x

validMagicNumber(file) == Field(file.magic) = AUDIO_MAGIC

\* The offset is compared with the size of a pointer to the header, 8.
validDataOffset(file) == Field(file.data_offset) % 8 = 0 /\ Field(file.data_offset) >= 8

validEncoding(file) == Field(file.encoding) \in PCM8_ENCODING..PCM32_ENCODING

validChannels(file) == Field(file.channels) \in {1, 2}

validHeader(file) ==
    validMagicNumber(file) /\ validDataOffset(file) /\ validEncoding(file) /\ validChannels(file)

\* A smaller offset than HeaderSize wraps to a large annotation.  A file that
\* is not complete ends in its annotation, or has a byte of ones in it.
read_annotation(file) ==
    /\ Unsigned(Field(file.data_offset) - HeaderSize) <= ANNOTATION_MAX
    /\ file.complete

\* Characters of a line of words, with the blanks and the newline.
LineSize(line) ==
    LET size[k \in 0..Len(line)] ==
            IF k = 0 THEN 0 ELSE size[k - 1] + (Len(Characters[line[k]]) + 1)
    IN  size[Len(line)]

\* Characters of a text.
TextSize(text) ==
    LET size[k \in 0..Len(text)] == IF k = 0 THEN 0 ELSE size[k - 1] + LineSize(text[k])
    IN  size[Len(text)]

\* Mutant: the padding forgets the terminating zero.
newSizeUnterminated(text) ==
    LET k == TextSize(text) IN IF k % 8 = 0 THEN k ELSE k + 8 - (k % 8)

\* What getNewAnnotation returns for the text it has put together.
newSize(text) == LET k == TextSize(text) IN k + 8 - (k % 8)

isPreserve == global_options.preserve
isSpeedUp == global_options.mode = "-u"
isSlowDown == global_options.mode = "-d"
isCrypt == global_options.mode = "-c"
Factor == getFactor(global_options)

\* Mutant: the last frame is not counted.
setNewDataSizeShort(size, frameSize, n) ==
    IF isSlowDown THEN Unsigned(Factor * (n - 1) * frameSize)
    ELSE IF isSpeedUp THEN Unsigned(Quotient(n, Factor) * frameSize)
    ELSE size

setNewDataSize(size, frameSize, n) ==
    IF isSlowDown THEN Unsigned((n + (Factor - 1) * (n - 1)) * frameSize)
    ELSE IF isSpeedUp THEN Unsigned((Quotient(n, Factor) + 1) * frameSize)
    ELSE size

-----------------------------------------------------------------------------
(* The pseudorandom numbers.                                               *)

\* The states of myrand after 0 to 8 calls.
myrand(seed) ==
    LET n[k \in 0..8] == IF k = 0 THEN seed ELSE (n[k - 1] * Multiplier + Increment) % Power(Base, 8)
    IN  n

\* The numbers of two calls: of four calls of myrand, the top byte of each.
myrand32(seed, c) ==
    LET top(k) == (((myrand(seed)[k] \div Power(Base, 2)) % (Power(Base, 2) \div 2)) \div (Base \div 2))
    IN  top(4 * c - 3) * Power(Base, 3) + top(4 * c - 2) * Power(Base, 2) + top(4 * c - 1) * Base + top(4 * c)

-----------------------------------------------------------------------------
(* Transformations.                                                        *)

\* Mutant: the quotient is taken first.
getInterpolationStepwise(s, t, k, n) == Signed(s + Quotient(Signed(t - s), n) * k)

getInterpolation(s, t, k, n) == Signed(s + Quotient(Signed(Signed(t - s) * k), n))

\* The frames slowDown inserts between two frames.
Inserted(s, t) ==
    LET frame(k) == [c \in 1..header.channels |-> getInterpolation(s[c], t[c], k, Factor)]
    IN  [k \in 1..((Factor - 1) * FrameSize) |->
            write_frame(frame(((k - 1) \div FrameSize) + 1))[((k - 1) % FrameSize) + 1]]

\* Exclusive or of two ints, from the last bit to the first.
xor(a, b) ==
    LET Pairs == (0..(Word - 1)) \X (0..(Word - 1))
        x[n \in 0..(4 * ByteBits)] ==
            [p \in Pairs |->
                IF n = 0 THEN 0
                ELSE 2 * x[n - 1][<<p[1] \div 2, p[2] \div 2>>] + ((p[1] + p[2]) % 2)]
    IN  x[4 * ByteBits][<<a, b>>]

Emit(bytes) == stdout' = [stdout EXCEPT !.data = @ \o bytes]

NoFile == [magic |-> 0, data_offset |-> 0, data_size |-> 0, encoding |-> 0,
           sample_rate |-> 0, channels |-> 0, text |-> <<>>, complete |-> TRUE, data |-> <<>>]

Start(line, file) ==
    /\ argv = line /\ stdin = file
    /\ global_options = Nothing /\ header = NoFile
    /\ frames = 0 /\ i = 0 /\ position = 0 /\ S = <<>> /\ next = 1
    /\ stdout = NoFile
    /\ pc = "main" /\ status = "running"

Init ==
    /\ source = <<>>
    /\ \E line \in CommandLines :
          IF validargs(line).mode \in {"", "-h"} THEN Start(line, NoFile)
          ELSE \E file \in Files : Start(line, file)

Exit(how) == pc' = "exit" /\ status' = how

\* main up to recode.
main ==
    /\ pc = "main"
    /\ global_options' = validargs(argv)
    /\ \/ validargs(argv) = Nothing /\ Exit("USAGE FAILURE")
       \/ validargs(argv).mode = "-h" /\ Exit("USAGE SUCCESS")
       \/ validargs(argv).mode \notin {"", "-h"} /\ pc' = "read" /\ UNCHANGED status
    /\ UNCHANGED <<argv, stdin, header, frames, i, position, S, next, stdout, source>>

\* The header of the input as recode keeps it.
read_header(file) ==
    [file EXCEPT !.data_offset = Field(@), !.data_size = Field(@), !.encoding = Field(@),
                 !.sample_rate = Field(@), !.channels = Field(@), !.data = <<>>]

\* recode up to the call of isPreserve.
recodeRead ==
    /\ pc = "read"
    /\ \/ ~(validHeader(stdin) /\ read_annotation(stdin)) /\ Exit("FAILURE") /\ UNCHANGED <<header, frames>>
       \/ /\ validHeader(stdin) /\ read_annotation(stdin)
          /\ header' = read_header(stdin)
          /\ frames' = Signed(header'.data_size \div (header'.channels * (header'.encoding - 1)))
          /\ pc' = "annotate" /\ UNCHANGED status
    /\ UNCHANGED <<argv, stdin, global_options, i, position, S, next, stdout, source>>

\* The header with its new size is written, an annotation after it.
WriteHeader(offset, text) ==
    /\ header' = [header EXCEPT !.data_size = setNewDataSize(@, FrameSize, frames),
                                !.data_offset = offset, !.text = text]
    /\ stdout' = header'
    /\ next' = getKey(global_options)
    /\ pc' = "loop"

\* recode with -p up to the loop.
recodePreserve ==
    /\ pc = "annotate" /\ isPreserve
    /\ WriteHeader(header.data_offset, header.text)
    /\ UNCHANGED <<argv, stdin, global_options, frames, i, position, S, status, source>>

\* Mutant: the header is written before the size of the annotation is known.
recodeAnnotateEarly ==
    /\ pc = "annotate" /\ ~isPreserve
    /\ \/ getArgC(global_options) > Len(argv) /\ Exit("SIGSEGV")
          /\ UNCHANGED <<header, next, stdout>>
       \/ /\ getArgC(global_options) <= Len(argv)
          /\ LET text == <<SubSeq(argv, 1, getArgC(global_options))>> \o header.text
                 size == newSize(text)
             IN  \/ size > ANNOTATION_MAX /\ Exit("FAILURE") /\ stdout' = header
                    /\ UNCHANGED <<header, next>>
                 \/ size <= ANNOTATION_MAX /\ WriteHeader(HeaderSize + size, text)
                    /\ UNCHANGED status
                 \/ size >= ANNOTATION_MAX /\ Exit("UNDEFINED")
                    /\ UNCHANGED <<header, next, stdout>>
    /\ UNCHANGED <<argv, stdin, global_options, frames, i, position, S, source>>

\* recode without -p up to the loop.  getNewAnnotation copies getArgC words
\* of argv, and past the end finds the null pointer.  The text is put together
\* in output_annotation before its size is checked, and the padding writes up
\* to 6 bytes behind itself: a size of ANNOTATION_MAX or more overruns the
\* buffer, and whatever lies behind it is overwritten.
recodeAnnotate ==
    /\ pc = "annotate" /\ ~isPreserve
    /\ \/ getArgC(global_options) > Len(argv) /\ Exit("SIGSEGV")
          /\ UNCHANGED <<header, next, stdout>>
       \/ /\ getArgC(global_options) <= Len(argv)
          /\ LET text == <<SubSeq(argv, 1, getArgC(global_options))>> \o header.text
                 size == newSize(text)
             IN  \/ size > ANNOTATION_MAX /\ Exit("FAILURE") /\ UNCHANGED <<header, next, stdout>>
                 \/ size <= ANNOTATION_MAX /\ WriteHeader(HeaderSize + size, text)
                    /\ UNCHANGED status
                 \/ size >= ANNOTATION_MAX /\ Exit("UNDEFINED")
                    /\ UNCHANGED <<header, next, stdout>>
    /\ UNCHANGED <<argv, stdin, global_options, frames, i, position, S, source>>

Loop == pc = "loop" /\ i < frames /\ i' = i + 1

speedUp ==
    /\ Loop /\ isSpeedUp
    /\ position' = position + FrameSize
    /\ IF i % Magnitude(Factor) = 0 THEN Emit(write_frame(read_frame(position))) ELSE UNCHANGED stdout
    /\ UNCHANGED <<argv, stdin, global_options, header, frames, S, next, pc, status, source>>

\* Mutant: the next frame is not copied to S.
slowDownStale ==
    /\ Loop /\ isSlowDown
    /\ LET s == IF i = 0 THEN read_frame(position) ELSE S
           p == IF i = 0 THEN position + FrameSize ELSE position
           t == read_frame(p)
       IN  IF i + 1 < frames
           THEN Emit(write_frame(s) \o Inserted(s, t)) /\ S' = s /\ position' = p + FrameSize
           ELSE Emit(write_frame(s)) /\ S' = s /\ position' = p
    /\ UNCHANGED <<argv, stdin, global_options, header, frames, next, pc, status, source>>

slowDown ==
    /\ Loop /\ isSlowDown
    /\ LET s == IF i = 0 THEN read_frame(position) ELSE S
           p == IF i = 0 THEN position + FrameSize ELSE position
           t == read_frame(p)
       IN  IF i + 1 < frames
           THEN Emit(write_frame(s) \o Inserted(s, t)) /\ S' = t /\ position' = p + FrameSize
           ELSE Emit(write_frame(s)) /\ S' = s /\ position' = p
    /\ UNCHANGED <<argv, stdin, global_options, header, frames, next, pc, status, source>>

crypt ==
    /\ Loop /\ isCrypt
    /\ LET frame == read_frame(position)
       IN  Emit(write_frame([c \in 1..header.channels |->
                                xor(Unsigned(frame[c]), myrand32(next, c))]))
    /\ next' = myrand(next)[4 * header.channels]
    /\ position' = position + FrameSize
    /\ UNCHANGED <<argv, stdin, global_options, header, frames, S, pc, status, source>>

recodeReturn ==
    /\ pc = "loop" /\ i >= frames
    /\ Exit("SUCCESS")
    /\ UNCHANGED <<argv, stdin, global_options, header, frames, i, position, S, next,
                   stdout, source>>

\* The command line that undoes another: -u after -d, -c after -c.
Undo(line) == IF line[2] = "-d" THEN [line EXCEPT ![2] = "-u"] ELSE line

\* The output is piped into a second process.
Pipe ==
    /\ pc = "exit" /\ status = "SUCCESS" /\ source = <<>> /\ argv[2] \in {"-d", "-c"}
    /\ source' = <<[argv |-> argv, stdin |-> stdin, frames |-> frames]>>
    /\ argv' = Undo(argv) /\ stdin' = stdout
    /\ global_options' = Nothing /\ header' = NoFile
    /\ frames' = 0 /\ i' = 0 /\ position' = 0 /\ S' = <<>> /\ next' = 1
    /\ stdout' = NoFile
    /\ pc' = "main" /\ status' = "running"

\* The process has ended.
Ended == pc = "exit" /\ UNCHANGED vars

Next == main \/ recodeRead \/ recodePreserve \/ recodeAnnotate
        \/ speedUp \/ slowDown \/ crypt \/ recodeReturn \/ Pipe \/ Ended

Spec == Init /\ [][Next]_vars

-----------------------------------------------------------------------------
(* Properties.                                                             *)

\* validargs accepts the command lines of the usage text, whatever the order
\* of the options.  What it accepts besides has an odd word for a number, but
\* is a command line of the usage text otherwise.
UsageIsAccepted ==
    pc # "main" =>
        /\ Usage(argv) => global_options # Nothing
        /\ global_options # Nothing => UsageWith(argv, Factors \cup OddFactors, Keys \cup NoKey)

Transforming == pc # "main" /\ Usage(argv) /\ argv[2] # "-h"

\* A key and a factor come back from global_options as the numbers of the
\* command line, but for a factor above half of the largest: its highest bit
\* is the marker "no factor", and that comes back instead, as it does without
\* -f.  The number of words that getNewAnnotation copies from argv comes back
\* too, but for a command line without -f, -k and -p, where it copies from the
\* null pointer.
OptionsAreKept ==
    Transforming =>
        /\ HasOperand(argv, "-k") =>
              getKey(global_options) = Number(OperandOf(argv, "-k"), 16)
        /\ HasOperand(argv, "-f") =>
              LET n == Number(OperandOf(argv, "-f"), 10)
              IN  Factor = IF n <= MaxFactor \div 2 THEN n ELSE -1
        /\ argv[2] # "-c" /\ ~HasOperand(argv, "-f") => Factor = -1
        /\ ~isPreserve => (getArgC(global_options) = Len(argv) <=> Len(argv) > 2)

Succeeded == pc = "exit" /\ status = "SUCCESS"

\* recode returns 0 "without producing any output": neither a bad header nor
\* a bad annotation nor one that would become too long leaves half a file.
FailureWritesNothing == status \in {"FAILURE", "USAGE FAILURE"} => stdout = NoFile

\* The output keeps the annotation with -p, and otherwise has the command line
\* in front of it; the space for it is a multiple of 8 below the maximum and
\* ends in a zero, so that the next process can read it.
AnnotationRecordsCommand ==
    Succeeded =>
        /\ stdout.data_offset % 8 = 0
        /\ stdout.data_offset - HeaderSize \in 0..ANNOTATION_MAX
        /\ IF \E k \in 2..Len(argv) : argv[k] = "-p"
           THEN stdout.text = stdin.text /\ stdout.data_offset = stdin.data_offset
           ELSE stdout.text = <<argv>> \o stdin.text
                /\ TextSize(stdout.text) < stdout.data_offset - HeaderSize

\* For a file with frames and a command line whose factor is kept, the size
\* in the header is the number of bytes written after it, but for the part of
\* a frame at the end of an encrypted file, and for the frame too many that
\* setNewDataSize counts when the factor divides the frames.  It is wrong, and
\* nothing is said of it, for a file without a frame and for a speed-up or
\* slow-down without a factor or with one above half of the largest.
SizeIsBytesWritten ==
    Succeeded /\ frames > 0 /\ Factor > 0 =>
        Unsigned(Len(stdout.data)) =
            Unsigned(stdout.data_size -
                        (IF isCrypt THEN stdout.data_size % FrameSize
                         ELSE IF isSpeedUp /\ frames % Factor = 0 THEN FrameSize
                         ELSE 0))

Samples(data, n) == [k \in 1..(Len(data) \div n) |-> SubSeq(data, (k - 1) * n + 1, k * n)]
Decoded(bytes) == signExtend(getStdinInt(bytes, 0, Len(bytes)), Len(bytes))

\* What was in a file that had as much data as its header says.
Undone(mode) ==
    /\ Succeeded /\ source # <<>> /\ argv[2] = mode
    /\ Len(source[1].stdin.data) >= source[1].stdin.data_size
SourceSamples ==
    Samples(SubSeq(source[1].stdin.data, 1, source[1].frames * FrameSize), BytesPerSample)

\* crypt is its own inverse: the second process meets every sample with the
\* pseudorandom number the first one used.  A sample of 32 ones is lost, be
\* it in the plain or in the encrypted file, because getStdinInt takes it for
\* the end of the file.
CryptTwiceIsIdentity ==
    Undone("-c") =>
        LET plain == SourceSamples
            encrypted == Samples(stdin.data, BytesPerSample)
            result == Samples(stdout.data, BytesPerSample)
            ones == [k \in 1..4 |-> Base - 1]
        IN  /\ Len(result) = Len(plain)
            /\ \A k \in DOMAIN plain :
                  plain[k] # ones /\ encrypted[k] # ones => result[k] = plain[k]

\* Speeding up by the factor of a slow-down removes exactly the frames it
\* inserted and gives back the bytes of every sample, but for the sample of 32
\* ones, which getStdinInt takes for the end of the file and which becomes 0.
\* The factor is at most half of the largest, and the size of the slowed file
\* fits the int in which setNewDataSize computes it: beyond that the second
\* process may find a negative number of frames, and writes none.
SpeedUpUndoesSlowDown ==
    Undone("-u") /\ Factor > 0 /\ source[1].frames > 0
    /\ source[1].frames * Factor * FrameSize < Word \div 2 =>
        LET before == SourceSamples
            after == Samples(stdout.data, BytesPerSample)
            ones == [k \in 1..4 |-> Base - 1]
            zeros == [k \in 1..4 |-> 0]
        IN  /\ Len(after) = Len(before)
            /\ \A k \in DOMAIN before :
                  after[k] = IF before[k] = ones THEN zeros ELSE before[k]

\* As long as (T-S)*k fits an int, which it need not do for samples of 32 bits
\* and for large factors, the samples slowDown inserts lie between their
\* neighbours, less than one away from the straight line.
InsertedSamplesAreLinear ==
    Succeeded /\ isSlowDown /\ Factor > 0 /\ Len(stdin.data) >= stdin.data_size
    /\ Power(Base, BytesPerSample) * Factor <= Word \div 2 =>
        LET sampleOf(data, frame, c) ==
                Decoded(SubSeq(data, frame * FrameSize + (c - 1) * BytesPerSample + 1,
                                     frame * FrameSize + c * BytesPerSample))
        IN  \A f \in 0..(frames - 2), k \in 0..(Factor - 1), c \in 1..header.channels :
                LET s == sampleOf(stdin.data, f, c)
                    t == sampleOf(stdin.data, f + 1, c)
                    x == sampleOf(stdout.data, f * Factor + k, c)
                IN  /\ x \in Min({s, t})..Max({s, t})
                    /\ Magnitude(x * Factor - (s * (Factor - k) + t * k)) < Factor
=============================================================================
