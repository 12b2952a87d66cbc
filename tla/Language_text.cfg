SPECIFICATION Spec
CONSTANTS
    Tokens = {"f", "-", "*", "<", "&&", "(", ")", ","}
    MaxTokens = 6
    Symbols = {"a", "q", "(", ")", "{", "}", "nl", "+", "kw", " "}
    MaxSymbols = 6
    Comments <- CommentTexts
INVARIANTS ParserIsGrammar CommentsVanish StatementsWhole
CHECK_DEADLOCK FALSE
