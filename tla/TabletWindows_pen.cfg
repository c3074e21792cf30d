SPECIFICATION WinSpec
INVARIANT ResetReleases
PROPERTIES
    FramesLegal
    StrokeStarts
