-------------------------- MODULE MagicStringDetector --------------------------
(***************************************************************************)
(* The buffer of the terminal's output, m_read_buffer of StdioTunnelLocal: *)
(* a SockBuffer whose processReadData looks for two strings in what is     *)
(* read.  The magic string of the remote process starts the handshake; the *)
(* login pattern (-p) makes it write the remote command (-c).  The         *)
(* characters are observed only: what SockBuffer does with the bytes stays *)
(* as it is.  pushOnBuffer and clear, which the program calls on its other *)
(* SockBuffers, stay enabled.                                              *)
(***************************************************************************)
EXTENDS SockBuffer

CONSTANTS
  Char,             \* characters of the text, the NUL behind a string not among them
  m_magic_string,
  m_login_pattern,
  m_remote_cmd,     \* whether a remote command is given
  MaxText           \* bound: characters read

ASSUME DetectorAssumption ==
  /\ m_magic_string \in Seq(Char) /\ m_magic_string # <<>>
  /\ m_login_pattern \in Seq(Char)
  /\ m_remote_cmd \in BOOLEAN /\ MaxText \in Nat

VARIABLES
  reading,      \* what readData is about to do: "read" or "process"; "no": it is not running
  input_buf,    \* what read() has returned
  i,            \* the character of it that processReadData is at
  read_total,   \* characters inserted by this call of readData
  m_recognized_count,
  m_recognized_login_count,
  text,         \* history: the characters processReadData is through with
  handshakes,   \* history: where in text startHandshaking was called
  commands      \* history: where in text remoteInit was called, in order

detector == <<reading, input_buf, i, read_total, m_recognized_count,
              m_recognized_login_count, text, handshakes, commands>>

DetectorInit ==
  /\ Init
  /\ reading = "no" /\ input_buf = <<>> /\ i = 1 /\ read_total = 0
  /\ m_recognized_count = 0 /\ m_recognized_login_count = 0
  /\ text = <<>> /\ handshakes = {} /\ commands = <<>>

-------------------------------------------------------------------------------
\* Variant for testing the properties: each buffer is searched by itself.
ReadsAfresh(s) ==
  /\ ~closed /\ came + Len(s) <= MaxBytes
  /\ reading = "read" \/ (reading = "no" /\ handshakes = {})
  /\ reading' = "process" /\ input_buf' = s /\ i' = 1 /\ m_recognized_count' = 0
  /\ UNCHANGED <<vars, read_total, m_recognized_login_count, text, handshakes, commands>>

\* readData: read() returns the characters s.  After the handshake has started the
\* owner reads packets instead, but a call that has filled the buffer reads on.
Reads(s) ==
  /\ ~closed /\ came + Len(s) <= MaxBytes
  /\ reading = "read" \/ (reading = "no" /\ handshakes = {})
  /\ reading' = "process" /\ input_buf' = s /\ i' = 1
  /\ UNCHANGED <<vars, read_total, m_recognized_count, m_recognized_login_count, text,
                 handshakes, commands>>

\* ch is the character of string expected after the first count ones.
Expected(string, count, ch) == count < Len(string) /\ string[count + 1] = ch

\* The magic string.  A mismatch starts over behind the mismatched character.
MatchMagic(ch) ==
  m_recognized_count' = IF Expected(m_magic_string, m_recognized_count, ch)
                        THEN m_recognized_count + 1 ELSE 0

\* Variant: the pattern is looked for again once it was met.
MatchLoginAgain(ch) ==
  LET hit == m_remote_cmd /\ Expected(m_login_pattern, m_recognized_login_count, ch)
      last == hit /\ m_recognized_login_count + 1 = Len(m_login_pattern)
  IN  /\ m_recognized_login_count' = IF hit /\ ~last THEN m_recognized_login_count + 1 ELSE 0
      /\ commands' = IF last THEN Append(commands, Len(text) + 1) ELSE commands

\* The login pattern: the command is sent once, when the last character has come.
MatchLogin(ch) ==
  LET hit == m_remote_cmd /\ Expected(m_login_pattern, m_recognized_login_count, ch)
      last == hit /\ m_recognized_login_count + 1 = Len(m_login_pattern)
  IN  /\ m_recognized_login_count' =
           IF hit THEN m_recognized_login_count + 1
           ELSE IF m_recognized_login_count < Len(m_login_pattern) THEN 0
           ELSE m_recognized_login_count
      /\ commands' = IF last THEN Append(commands, Len(text) + 1) ELSE commands

\* One iteration of the loop of processReadData, which leaves the rest of the buffer
\* alone when the handshake starts.
ProcessChar ==
  /\ ~closed /\ reading = "process" /\ i <= Len(input_buf)
  /\ MatchMagic(input_buf[i])
  /\ \/ /\ m_recognized_count' = Len(m_magic_string)
        /\ handshakes' = handshakes \union {Len(text) + 1}
        /\ text' = text \o SubSeq(input_buf, i, Len(input_buf))
        /\ i' = Len(input_buf) + 1
        /\ UNCHANGED <<m_recognized_login_count, commands>>
     \/ /\ m_recognized_count' # Len(m_magic_string)
        /\ MatchLogin(input_buf[i])
        /\ text' = Append(text, input_buf[i])
        /\ i' = i + 1
        /\ UNCHANGED handshakes
  /\ UNCHANGED <<vars, reading, input_buf, read_total>>

\* The end of the loop of readData: the characters go behind the queue, as pushOnBuffer
\* puts them there.  A full buffer is not the last; none at all makes the owner give up.
Inserts ==
  LET n == Len(input_buf)
  IN  /\ reading = "process" /\ i > n
      /\ IF read_total + n = 0 THEN ReadData(0) ELSE PushOnBuffer(n)
      /\ IF n = BUFFER_SIZE THEN reading' = "read" /\ read_total' = read_total + n
                            ELSE reading' = "no" /\ read_total' = 0
      /\ input_buf' = <<>> /\ i' = 1
      /\ UNCHANGED <<m_recognized_count, m_recognized_login_count, text, handshakes, commands>>

Read ==
  \E n \in 0 .. Least(BUFFER_SIZE, MaxText - Len(text)) : \E s \in [1 .. n -> Char] : Reads(s)

\* Throws stands for the failure of remoteInit's write(), too.
DetectorNext ==
  \/ Read
  \/ ProcessChar
  \/ Inserts
  \/ Throws /\ UNCHANGED detector
  \/ /\ reading = "no"
     /\ \/ \E n \in 1 .. MaxBytes : PushOnBuffer(n)
        \/ \E n \in 0 .. BUFFER_SIZE : WriteData(n)
        \/ Clear
     /\ UNCHANGED detector

\* read() does not wait (O_NONBLOCK): readData returns.
DetectorSpec ==
  /\ DetectorInit /\ [][DetectorNext]_<<vars, detector>>
  /\ WF_<<vars, detector>>((reading = "read" /\ Read) \/ ProcessChar \/ Inserts)
  /\ WF_vars(/\ reading = "no" /\ unsentData
             /\ \E n \in 1 .. BUFFER_SIZE : WriteData(n)
             /\ UNCHANGED detector)

-------------------------------------------------------------------------------
(***************************************************************************)
(* Properties.                                                             *)
(***************************************************************************)
\* string ends at position p of text ...
OccursAt(string, p) == p >= Len(string) /\ SubSeq(text, p - Len(string) + 1, p) = string

\* ... and no beginning of string ends where it starts.
CleanAt(string, p) ==
  /\ OccursAt(string, p)
  /\ \A n \in 1 .. Len(string) : ~OccursAt(SubSeq(string, 1, n), p - Len(string))

(***************************************************************************)
(* The handshake starts only where the magic string is, and at the first   *)
(* one that does not follow a beginning of itself, wherever read() has cut *)
(* it.  (A magic string that does follow one may be missed.)               *)
(***************************************************************************)
HandshakeDetected ==
  /\ \A p \in handshakes : OccursAt(m_magic_string, p)
  /\ \A p \in 1 .. Len(text) :
       CleanAt(m_magic_string, p) => \E q \in handshakes : q <= p

(***************************************************************************)
(* The remote command is written at most once, and only if one is given.   *)
(* Before the handshake it is written only where the login pattern is, and *)
(* at the first one that does not follow a beginning of itself.  (In what  *)
(* readData reads on after the handshake has started, the rest of a        *)
(* pattern that was half met may complete it.)                             *)
(***************************************************************************)
CommandSentOnce ==
  LET early(p) == \A q \in handshakes : p < q
  IN  /\ Len(commands) <= 1
      /\ commands # <<>> => m_remote_cmd
      /\ \A k \in 1 .. Len(commands) :
           early(commands[k]) => OccursAt(m_login_pattern, commands[k])
      /\ \A p \in 1 .. Len(text) :
           /\ m_remote_cmd /\ m_login_pattern # <<>>
           /\ CleanAt(m_login_pattern, p) /\ early(p)
           => \E k \in 1 .. Len(commands) : commands[k] <= p
===============================================================================
