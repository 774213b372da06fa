CONSTANTS
    TabWidth = 2
    Texts <- MCTexts
    EOLModes <- MCEOLModes
    Comment <- MCComment
    Open <- MCOpen
    Close <- MCClose
    Columns <- MCColumns
    Searches <- MCSearches
    Replacements <- MCReplacements
    Prompt = 62
    Caret = 94
    MaxCommands = 1
    MaxLength = 12
SPECIFICATION Spec
PROPERTY ReplacingEnds
