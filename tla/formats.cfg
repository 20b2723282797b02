SPECIFICATION Spec
INVARIANTS
    TypeOK
    
    ImageReadsBack
    
    ClipsTrue
    PlayListTrue
    StreamsDemuxed
    FramesRead
    
