CONSTANTS
  MaxChars = 3
  SoftMax = 4
  MinChunk = 2
  Characters <- MCCharacters
  InlineNodes <- MCInlineNodes
  FlowNodes <- MCFlowNodes
  BlockNodes <- MCBlockNodes
  Pages <- MCPages
  BookItems <- MCBookItems
  Books <- MCBooks
  Images <- MCImages
  Boxes <- MCBoxes
  MaxBoxes = 4
  MaxPages = 3
  MaxBook = 4
  MaxText = 7
  MaxInline = 5
  MaxFlow = 5
  MaxBlocks = 4
SPECIFICATION Spec
INVARIANTS ChunksFaithful HeardInOrder NotesResolve FiguresShown
CHECK_DEADLOCK FALSE
