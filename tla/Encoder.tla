------------------------------- MODULE Encoder -------------------------------
(***************************************************************************)
(* What the capture pipelines of Streamer do with FFmpeg: the constructor  *)
(* that opens the capture source, the body of the capture loop, and the    *)
(* encoder of video/encoder.go, whose filter graph and codec are built     *)
(* lazily, from the first frame that needs them.  Each FFmpeg call may     *)
(* fail.  The steps of Streamer (Start, Stop, the goroutine) are taken     *)
(* from there; a step of the loop body here is one call.                   *)
(*                                                                         *)
(* The three backends (kmsgrab, x11grab, ddagrab) hold the same objects    *)
(* and run the same loop; they differ in the frames they produce and so in *)
(* the filter chain and in the device the encoder has to create.           *)
(***************************************************************************)
EXTENDS Streamer, Sequences, FiniteSets

CONSTANT Configs    \* source, requested encoder, and what the machine has

VARIABLES
    source,     \* the capture backend, the same for every connection
    family,     \* what resolveEncoder returns for it, or NoFamily
    at,         \* where the constructor or the capture loop of a pipeline is
    held,       \* the FFmpeg objects a pipeline holds
    opened      \* those of them that were opened or configured

loopVars == <<source, family, at, held, opened>>
allVars == <<vars, loopVars>>

NoFamily == "none"

\* The codecs a source can be paired with on its platform.
LinuxFamilies == {"vaapi", "nvenc", "libx264"}
WindowsFamilies == {"nvenc", "amf", "mf", "libx264"}
Families == LinuxFamilies \cup WindowsFamilies

ConfigType == [source : {"kmsgrab", "x11grab", "ddagrab"},
               requested : Families \cup {"auto", "unknown"},
               available : SUBSET Families, nvidia : BOOLEAN]

ASSUME ConfigsAssumption == Configs \subseteq ConfigType

InputObjects == {"input", "decoder", "decodePacket", "decodeFrame"}
EncoderObjects == {"device", "graph", "filteredFrame", "codec", "encodePacket"}

-----------------------------------------------------------------------------
(* The choice of the encoder                                               *)

\* The decoder of kmsgrab and ddagrab produces hardware frames.
HardwareInput(s) == s \in {"kmsgrab", "ddagrab"}

\* The encoder that "auto" stands for.
Automatic(c) ==
    IF c.source = "ddagrab" THEN "mf"
    ELSE IF c.nvidia /\ "nvenc" \in c.available /\ c.source # "kmsgrab"
         THEN "nvenc"
    ELSE IF "vaapi" \in c.available THEN "vaapi" ELSE "libx264"

\* An explicit encoder is looked up by its label; kmsgrab refuses nvenc, and
\* nothing else is checked against the source.
ResolveEncoder(c) ==
    LET kind == IF c.requested = "auto" THEN Automatic(c) ELSE c.requested
    IN  IF kind \in c.available /\ ~(c.source = "kmsgrab" /\ kind = "nvenc")
        THEN kind ELSE NoFamily

\* The filters between a source and an encoder, by what they do to the frame;
\* an unknown pair has no chain.  The width cap adds no filter that matters.
FilterChain(s, e) ==
    CASE s = "kmsgrab" /\ e = "vaapi"   -> <<"hwmap", "scale">>
      [] s = "kmsgrab" /\ e = "libx264" -> <<"hwmap", "scale", "hwdownload">>
      [] s = "x11grab" /\ e = "libx264" -> <<"format">>
      [] s = "x11grab" /\ e \in {"vaapi", "nvenc"} -> <<"format", "hwupload">>
      [] s = "ddagrab" /\ e = "nvenc"   -> <<"hwmap", "scale">>
      [] s = "ddagrab" /\ e = "amf"     -> <<"scale">>
      [] s = "ddagrab" /\ e \in {"mf", "libx264"} -> <<"hwdownload", "format">>
      [] OTHER -> <<>>

Uploads == \E i \in DOMAIN FilterChain(source, family) :
              FilterChain(source, family)[i] = "hwupload"

\* A software source needs a device for hwupload, which newEncoder creates.
NeedsDevice == ~HardwareInput(source) /\ family \in {"vaapi", "nvenc"}

-----------------------------------------------------------------------------
(* Freeing                                                                 *)

\* Each object is freed when the pipeline holds it, so both work on pipelines
\* that are built in part.
FreeInputDecode(objects) == objects \ InputObjects

\* Variant: free does not know of the hardware device.
BugEncoderFree(objects) == objects \ (EncoderObjects \ {"device"})

EncoderFree(objects) == objects \ EncoderObjects

-----------------------------------------------------------------------------
(* The constructor.  It runs on the caller's goroutine; only its result    *)
(* is seen by others.                                                      *)

Goto(p, to) == at' = Set(at, p, to)
Keep == UNCHANGED <<source, family>>

\* No DRM card; or newEncoder finds no encoder for this source, or no device
\* for it.
EncoderFails(p) ==
    /\ at[p] = "absent"
    /\ source = "kmsgrab" \/ family = NoFamily \/ NeedsDevice
    /\ held' = Set(held, p, EncoderFree({"filteredFrame", "encodePacket"}))
    /\ Goto(p, "failed")
    /\ Keep /\ UNCHANGED <<vars, opened>>

NewEncoder(p) ==
    /\ at[p] = "absent"
    /\ family # NoFamily
    /\ held' = Set(held, p, {"filteredFrame", "encodePacket"}
                    \cup IF NeedsDevice THEN {"device"} ELSE {})
    /\ Goto(p, "opening")
    /\ Keep /\ UNCHANGED <<vars, opened>>

\* initKmsgrab, initX11grab or initDdagrab fails half-way: the input context
\* exists before it is opened, the decoder before it is opened.
SourceFails(p) ==
    /\ at[p] = "opening"
    /\ \E partial \in {{}, {"input"}, {"input", "decoder"}} :
          held' = Set(held, p, EncoderFree(FreeInputDecode(held[p] \cup partial)))
    /\ Goto(p, "failed")
    /\ Keep /\ UNCHANGED <<vars, opened>>

\* The source is open and its resolution published.
OpenSource(p) ==
    /\ at[p] = "opening"
    /\ New(p)
    /\ held' = Set(held, p, held[p] \cup InputObjects)
    /\ opened' = Set(opened, p, {"input", "decoder"})
    /\ Goto(p, "ready")
    /\ Keep

-----------------------------------------------------------------------------
(* The capture loop                                                        *)

\* A step from one call of the loop body to the next.
Body(p, from, to) ==
    /\ at[p] = from
    /\ Goto(p, to)
    /\ Keep /\ UNCHANGED vars

\* The loop function returns: its goroutine closes done.
Leave(p, from) ==
    /\ at[p] = from
    /\ LoopReturns(p)
    /\ Goto(p, "left")
    /\ Keep

EnterLoop(p) ==
    /\ Launch(p)
    /\ Goto(p, "top")
    /\ Keep /\ UNCHANGED <<held, opened>>

\* The select on s.stop at the top of the loop.
SeeStop(p) ==
    /\ stopClosed[p]
    /\ Leave(p, "top")
    /\ UNCHANGED <<held, opened>>

Proceed(p) ==
    /\ ~stopClosed[p]
    /\ Body(p, "top", "read") /\ UNCHANGED <<held, opened>>

\* ReadFrame and SendPacket: end of stream ends the loop, any other error is
\* logged and skipped.
ReadPacket(p) ==
    /\ \/ Body(p, "read", "receive")
       \/ Body(p, "read", "top")
       \/ Leave(p, "read")
    /\ UNCHANGED <<held, opened>>

ReceiveFrame(p) == Body(p, "receive", "filter") /\ UNCHANGED <<held, opened>>

\* EAGAIN, end of stream or an error ends the inner loop; the same holds for
\* GetFrame and ReceivePacket.
NoFrame(p) == Body(p, "receive", "top") /\ UNCHANGED <<held, opened>>

\* initFilterGraph returns at once when there is a graph.
GraphExists(p) ==
    /\ "graph" \in held[p]
    /\ Body(p, "filter", "add")
    /\ UNCHANGED <<held, opened>>

\* Parsing fails without a chain; hwupload fails in its init without a device,
\* which parseFilterGraphWithDevice attaches before it.
CanParse(p) ==
    /\ FilterChain(source, family) # <<>>
    /\ Uploads => "device" \in held[p]

InitFilterGraph(p) ==
    /\ "graph" \notin held[p]
    /\ CanParse(p)
    /\ Body(p, "filter", "add")
    /\ held' = Set(held, p, held[p] \cup {"graph"})
    /\ opened' = Set(opened, p, opened[p] \cup {"graph"})

\* Variant: the frame is skipped, the loop goes on with the half-built graph.
BugFilterGraphFails(p) ==
    /\ "graph" \notin held[p]
    /\ Body(p, "filter", "receive")
    /\ held' = Set(held, p, held[p] \cup {"graph"})
    /\ UNCHANGED opened

\* The graph is allocated, one of the later steps fails: the loop ends.
FilterGraphFails(p) ==
    /\ "graph" \notin held[p]
    /\ Leave(p, "filter")
    /\ held' = Set(held, p, held[p] \cup {"graph"})
    /\ UNCHANGED opened

AddFrame(p) ==
    /\ Body(p, "add", "get") \/ Body(p, "add", "receive")
    /\ UNCHANGED <<held, opened>>

GetFrame(p) == Body(p, "get", "encoder") /\ UNCHANGED <<held, opened>>

NoFilteredFrame(p) == Body(p, "get", "receive") /\ UNCHANGED <<held, opened>>

\* initEncoder returns at once when there is a codec context.
EncoderExists(p) ==
    /\ "codec" \in held[p]
    /\ Body(p, "encoder", "send")
    /\ UNCHANGED <<held, opened>>

InitEncoder(p) ==
    /\ "codec" \notin held[p]
    /\ Body(p, "encoder", "send")
    /\ held' = Set(held, p, held[p] \cup {"codec"})
    /\ opened' = Set(opened, p, opened[p] \cup {"codec"})

\* The codec context is allocated, an option or its opening fails.
InitEncoderFails(p) ==
    /\ "codec" \notin held[p]
    /\ Leave(p, "encoder")
    /\ held' = Set(held, p, held[p] \cup {"codec"})
    /\ UNCHANGED opened

SendFrame(p) ==
    /\ Body(p, "send", "packet") \/ Body(p, "send", "receive")
    /\ UNCHANGED <<held, opened>>

\* ReceivePacket and WriteSample; an error of the latter is only logged.
WritePacket(p) == Body(p, "packet", "packet") /\ UNCHANGED <<held, opened>>

NoPacket(p) == Body(p, "packet", "get") /\ UNCHANGED <<held, opened>>

\* The Stop of the pipeline frees what it holds.
FreeAll(p) ==
    /\ Free(p)
    /\ held' = Set(held, p, EncoderFree(FreeInputDecode(held[p])))
    /\ opened' = Set(opened, p, {})
    /\ UNCHANGED <<source, family, at>>

-----------------------------------------------------------------------------
EncoderInit ==
    /\ Init
    /\ \E c \in Configs : source = c.source /\ family = ResolveEncoder(c)
    /\ at = Everywhere("absent")
    /\ held = Everywhere({})
    /\ opened = Everywhere({})

Construct(p) == EncoderFails(p) \/ NewEncoder(p) \/ SourceFails(p) \/ OpenSource(p)

LoopStep(p) ==
    \/ SeeStop(p) \/ Proceed(p) \/ ReadPacket(p)
    \/ ReceiveFrame(p) \/ NoFrame(p)
    \/ GraphExists(p) \/ InitFilterGraph(p) \/ FilterGraphFails(p)
    \/ AddFrame(p) \/ GetFrame(p) \/ NoFilteredFrame(p)
    \/ EncoderExists(p) \/ InitEncoder(p) \/ InitEncoderFails(p)
    \/ SendFrame(p) \/ WritePacket(p) \/ NoPacket(p)

Finish(p) ==
    \/ FreeAll(p)
    \/ (SignalStop(p) \/ AwaitLoop(p) \/ ZeroCapture(p)) /\ UNCHANGED loopVars

EncoderNext ==
    \E p \in Pipeline :
        \/ Construct(p) \/ EnterLoop(p) \/ LoopStep(p) \/ Finish(p)
        \/ (Start(p) \/ Stop(p)) /\ UNCHANGED loopVars

EncoderSpec == EncoderInit /\ [][EncoderNext]_allVars

\* A goroutine that can run does, FFmpeg calls return, and what was fed to the
\* decoder or the graph comes out of it in finitely many pieces.
\* Nobody has to call the constructor, Start or Stop.
EncoderFairSpec ==
    /\ EncoderSpec
    /\ \A p \in Pipeline :
          /\ WF_allVars(EnterLoop(p)) /\ WF_allVars(LoopStep(p))
          /\ WF_allVars(Finish(p))
          /\ SF_allVars(NoFrame(p)) /\ SF_allVars(NoFilteredFrame(p))

-----------------------------------------------------------------------------
(* Properties                                                              *)

EncoderTypeOK ==
    /\ source \in {"kmsgrab", "x11grab", "ddagrab"}
    /\ family \in Families \cup {NoFamily}
    /\ at \in [Pipeline -> {"absent", "opening", "failed", "ready", "top",
                  "read", "receive", "filter", "add", "get", "encoder",
                  "send", "packet", "left"}]
    /\ {held, opened} \subseteq [Pipeline -> SUBSET (InputObjects \cup EncoderObjects)]
    /\ \A p \in Pipeline : opened[p] \subseteq held[p]

\* What the next call of the loop body works on: objects that exist, and those
\* of them that have to be opened or configured first.
Exist(point) ==
    CASE point = "read"    -> {"decodePacket"}
      [] point \in {"receive", "filter"} -> {"decodeFrame"}
      [] point \in {"get", "encoder", "send"} -> {"filteredFrame"}
      [] point = "packet"  -> {"encodePacket"}
      [] OTHER -> {}
Open(point) ==
    CASE point \in {"read", "receive", "filter"} -> {"input", "decoder"}
      [] point \in {"add", "get"} -> {"graph"}
      [] point \in {"send", "packet"} -> {"codec"}
      [] OTHER -> {}

\* The FFmpeg calls of the capture goroutine only meet objects that exist, are
\* opened and not freed, whatever failed before and whoever stops the
\* pipeline.  initFilterGraph and initEncoder take a graph or a codec that
\* exists for one that works, so the loop must not go on after a failure; the
\* device hwupload needs must exist wherever the chain uploads.
CallsAreReady ==
    /\ EncoderTypeOK
    /\ \A p \in Pipeline :
          /\ Exist(at[p]) \subseteq held[p] /\ Open(at[p]) \subseteq opened[p]
          /\ at[p] = "filter" /\ Uploads => "device" \in held[p]

\* What a pipeline allocated is freed when its constructor has failed and when
\* its Stop is past the free calls, at whichever step it was interrupted; and
\* once Stop has returned, pen positions are no longer mapped onto the
\* resolution it published, whichever of two pipelines stops first.
NothingHeld ==
    /\ \A p \in Pipeline :
          at[p] = "failed" \/ stopper[p] \in {"zero", "done"} => held[p] = {}
    /\ capture # NoPipeline => stopper[capture] # "done"
=============================================================================
