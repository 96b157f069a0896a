------------------------------ MODULE MCLayers ------------------------------
(***************************************************************************)
(* The layers of an archive, each over a plain file of its own.  They do   *)
(* not share anything here: an initial state chooses the one that is used, *)
(* and the others stay as they are.                                        *)
(***************************************************************************)
EXTENDS Integers, Sequences

CONSTANTS Used \* the layers to choose from

VARIABLES turn, cache, cacheAnswer, layer, layerAnswer, tronc, troncAnswer,
          marked, markedAnswer, holed, sparse, crc, sparseAnswer,
          sar, sarAnswer, pipe, pipeAnswer,
          comp, archive, streams, cursor, compAnswer

cacheVars == <<cache, cacheAnswer>>
layerVars == <<layer, layerAnswer>>
troncVars == <<tronc, troncAnswer>>
markedVars == <<marked, markedAnswer>>
sparseVars == <<holed, sparse, crc, sparseAnswer>>
sarVars == <<sar, sarAnswer>>
pipeVars == <<pipe, pipeAnswer>>
compVars == <<comp, archive, streams, cursor, compAnswer>>
vars == <<turn, cacheVars, layerVars, troncVars, markedVars, sparseVars, sarVars, pipeVars,
          compVars>>

Caching == INSTANCE Cache
  WITH answer <- cacheAnswer, MaxRead <- 2, MaxSkip <- 3,
       Chunk <- {<<5>>, <<6, 7, 6>>}, Contents <- {<<>>, <<1, 2, 3>>},
       Mode <- {"read_only", "write_only"}, InitialSize <- 2, MaxBufferSize <- 4,
       Observation <- 2, OverusedRate <- 50, MayMissStart <- FALSE

Encrypting == INSTANCE Tronconneuse
  WITH answer <- layerAnswer, MaxRead <- 3, MaxSkip <- 6,
       Chunk <- {<<5>>, <<6, 7, 6>>},
       Contents <- {<<>>, <<1, 2, 3>>, <<1, 2, 3, 4>>, <<1, 2, 3, 4, 5>>},
       ClearBlockSize <- 2, Shift <- 1, Trailer <- {0, 1, 2, 4}, MaySyncEarly <- FALSE

Limiting == INSTANCE Tronc
  WITH answer <- troncAnswer, MaxRead <- 3, MaxSkip <- 4, Archive <- <<1, 2, 3, 4, 5>>,
       Starts <- {0, 2}, Sizes <- {0, 1, 3}

Marking == INSTANCE Escape
  WITH escape <- marked, answer <- markedAnswer, MaxRead <- 4,
       Chunk <- {<<1>>, <<1, 2>>, <<1, 1, 2, 8>>}, Fixed <- <<1, 2>>,
       Mark <- {9, 10}, Unjumpable <- {10}, NotASequence <- 8, MaxSize <- 4,
       MayEndAlike <- FALSE, MayAskAnywhere <- FALSE

Holing == INSTANCE SparseFile
  WITH escape <- holed, answer <- sparseAnswer, MaxRead <- 3,
       Chunk <- {<<0>>, <<1>>, <<2>>, <<0, 0>>, <<3, 0, 0, 2>>}, Fixed <- <<1, 2>>,
       Mark <- {9}, Unjumpable <- {}, NotASequence <- 8, MaxSize <- 5, HoleMark <- 9,
       MinHole <- 1, CrcWidth <- 2, HidesHoles <- {TRUE, FALSE},
       MayEndAlike <- FALSE, MayAskAnywhere <- FALSE

Slicing == INSTANCE Slices
  WITH answer <- sarAnswer, MaxRead <- 3, MaxSkip <- 6, Chunk <- {<<5>>, <<6, 7, 8>>},
       Size <- 5, FirstSize <- 4, OldFormat <- {TRUE, FALSE}, Foreign <- {3},
       AllowOverwrite <- TRUE, MayMissStart <- FALSE, MayMissEnd <- FALSE

Piping == INSTANCE PipedSlice
  WITH slice <- pipe, answer <- pipeAnswer, MaxRead <- 3, MaxSkip <- 5,
       Chunk <- {<<5>>, <<6, 7, 6>>}, OldFormat <- {FALSE}, MaySkipAhead <- FALSE

Compressing == INSTANCE Compressor
  WITH answer <- compAnswer, MaxRead <- 3, Chunk <- {<<5>>, <<6, 7>>}, MaxStreams <- 2,
       MaxStream <- 3, Algorithms <- {"none", "gzip", "lzo"}, BufferSize <- 2,
       ClearBufferSize <- 2

-----------------------------------------------------------------------------
\* What a layer that is not used holds: one of its initial states.
CacheIdle == cache.mode = "read_only" /\ cache.ref.data = <<>> /\ ~cache.shifted_mode
LayerIdle == layer.mode = "write_only"
TroncIdle == ~tronc.limited /\ tronc.start = 0
SarIdle == ~sar.old /\ sar.mode = "write_only"
CompIdle == comp.algo = "none"

Init == /\ turn \in Used
        /\ Caching!Init /\ (turn = "cache" \/ CacheIdle)
        /\ Encrypting!Init /\ (turn = "tronconneuse" \/ LayerIdle)
        /\ Limiting!Init /\ (turn = "tronc" \/ TroncIdle)
        /\ Marking!Init
        /\ Holing!SparseInit
        /\ Slicing!Init /\ (turn = "sar" \/ SarIdle)
        /\ Piping!Init
        /\ Compressing!Init /\ (turn = "compressor" \/ CompIdle)

Next == \/ /\ turn = "cache" /\ Caching!Next
           /\ UNCHANGED <<turn, layerVars, troncVars, markedVars, sparseVars, sarVars,
                          pipeVars, compVars>>
        \/ /\ turn = "tronconneuse" /\ Encrypting!Next
           /\ UNCHANGED <<turn, cacheVars, troncVars, markedVars, sparseVars, sarVars,
                          pipeVars, compVars>>
        \/ /\ turn = "tronc" /\ Limiting!Next
           /\ UNCHANGED <<turn, cacheVars, layerVars, markedVars, sparseVars, sarVars,
                          pipeVars, compVars>>
        \/ /\ turn = "escape" /\ Marking!Next
           /\ UNCHANGED <<turn, cacheVars, layerVars, troncVars, sparseVars, sarVars,
                          pipeVars, compVars>>
        \/ /\ turn = "sparse_file" /\ Holing!SparseNext
           /\ UNCHANGED <<turn, cacheVars, layerVars, troncVars, markedVars, sarVars,
                          pipeVars, compVars>>
        \/ /\ turn = "sar" /\ Slicing!Next
           /\ UNCHANGED <<turn, cacheVars, layerVars, troncVars, markedVars, sparseVars,
                          pipeVars, compVars>>
        \/ /\ turn = "trivial_sar" /\ Piping!Next
           /\ UNCHANGED <<turn, cacheVars, layerVars, troncVars, markedVars, sparseVars,
                          sarVars, compVars>>
        \/ /\ turn = "compressor" /\ Compressing!Next
           /\ UNCHANGED <<turn, cacheVars, layerVars, troncVars, markedVars, sparseVars,
                          sarVars, pipeVars>>

Spec == Init /\ [][Next]_vars

-----------------------------------------------------------------------------
\* What is said of each layer in its module, and shown here together.

\* Classes cache, tronconneuse and tronc: a buffer of changing size, encrypted
\* blocks and the data of one entry are each a file to the layer above.
FilesAreKept ==
  Caching!CacheIsAFile /\ Encrypting!EncryptedIsAFile /\ Limiting!PartIsAFile
\* Classes escape and sparse_file: data, marks and holes come back, whatever
\* the data looks like.
MarksAreKept == Marking!EscapeIsAMarkedStream /\ Holing!SparseIsAFile
\* Class sparse_file: the CRC of restored data is the one of the file.
RestoredDataMatchesCrc == Holing!RestoredDataMatchesCrc
\* Classes sar, trivial_sar and tuyau: slices are one file, a pipe gives the
\* archive or an exception; the last slice, and it alone, says that it is the
\* last one, and a command is run once for each slice, when it is complete.
SlicesAreKept ==
  /\ Slicing!SlicesAreAFile /\ Piping!PipeIsAFile
  /\ [](Slicing!SlicesAreClosed /\ Slicing!CommandsFollowSlices)
\* Class compressor: streams are read as they were written.
StreamsAreKept == Compressing!StreamsAreKept
=============================================================================
