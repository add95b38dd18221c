CONSTANTS
    Cr = Cr
    Lf = Lf
    Dash = Dash
    Letter = Letter
    Name = Name
    Description = Description
    Boundary <- MCBoundary
    NoBoundary <- MCNoBoundary
    MaxFile = 5
SPECIFICATION Spec
INVARIANTS FileArrives NothingIsLost SavedTextIsStable
